---- MODULE Spec2Model ----
(***************************************************************************)
(* A model of intake-esgf: the HTTPS downloader (base.parallel_download,   *)
(* base.download_and_verify, database.sort_download_links), the access     *)
(* planner (base.partition_infos, ESGFCatalog.to_path_dict) and the        *)
(* federated search with its reconciliation (ESGFCatalog.search,           *)
(* base.combine_results).                                                  *)
(*                                                                         *)
(* Each part is a state machine of its own (SpecDownload, SpecPaths,       *)
(* SpecSearch) over one set of variables; a part leaves the variables of   *)
(* the other parts unchanged.                                              *)
(***************************************************************************)
EXTENDS Integers, Sequences, FiniteSets, TLC

None == "None"
\* None where a path or a key is expected
NoPath == <<>>
NoKey == <<>>

\* ------------------------------------------------------------------------
\* Bounds of the model
\* ------------------------------------------------------------------------
MaxUrls == 2
MaxCaches == 2
MaxRoots == 1
MaxRows == 1
RandDen == 2

\* ------------------------------------------------------------------------
\* General helpers
\* ------------------------------------------------------------------------
Range(s) == {s[k] : k \in 1..Len(s)}

SeqsUpTo(S, n) == UNION {[1..k -> S] : k \in 0..n}

RECURSIVE SumOver(_, _)
SumOver(f, S) ==
  IF S = {} THEN 0
  ELSE LET x == CHOOSE y \in S : TRUE IN f[x] + SumOver(f, S \ {x})

\* ------------------------------------------------------------------------
\* The local file system and the conf roots
\* ------------------------------------------------------------------------
\* The first n esg_dataroot entries and the first n local_cache entries; a
\* file location is <<root, relative path>>.
DataRootNames == <<"r1", "r2", "r3", "r4">>
CacheNames == <<"c1", "c2", "c3", "c4">>
DataRoots(n) == SubSeq(DataRootNames, 1, n)
Caches(n) == SubSeq(CacheNames, 1, n)

\* root / path
Join(root, path) == <<root, path>>

\* Content of a location: "absent", or a file that is "good" (the published
\* bytes), "bad" (a complete response body with other bytes, e.g. truncated)
\* or "partial" (the body written up to an interruption).
Contents == {"absent", "good", "bad", "partial"}

exists(files, f) == files[f] # "absent"
is_file(files, f) == files[f] # "absent"

\* ------------------------------------------------------------------------
\* The transfer-rate store (database.py)
\* ------------------------------------------------------------------------
Hosts == {"hA", "hB"}
Times == {1, 2}
\* file sizes in bytes; the store holds megabytes (size * 1e-6)
Sizes == {8000000, 20000000}
MbOf(size) == size \div 1000000

\* default minimum_size of get_download_rate_dataframe
MinimumSize == 10

Rows == [host : Hosts, transfer_time : Times, transfer_size : {MbOf(s) : s \in Sizes}]

\* INSERT INTO downloads: one row appended
log_download_information_only(db, host, transfer_time, transfer_size) ==
  <<[host |-> host, transfer_time |-> transfer_time, transfer_size |-> transfer_size]>>
log_download_information(db, host, transfer_time, transfer_size) ==
  Append(db, [host |-> host, transfer_time |-> transfer_time,
              transfer_size |-> transfer_size])

\* SELECT * FROM downloads WHERE transfer_size > minimum_size, grouped by host
\* and summed; the rate of a host is transfer_size / transfer_time of its sums,
\* kept here as the pair of sums.
get_download_rate_dataframe_all(db, minimum_size) ==
  LET idx == {db[k].host : k \in 1..Len(db)}
      of(h) == {k \in 1..Len(db) : db[k].host = h}
  IN [h \in idx |->
        [transfer_time |-> SumOver([k \in 1..Len(db) |-> db[k].transfer_time], of(h)),
         transfer_size |-> SumOver([k \in 1..Len(db) |-> db[k].transfer_size], of(h))]]
get_download_rate_dataframe(db, minimum_size) ==
  LET sel == {k \in 1..Len(db) : db[k].transfer_size > minimum_size}
      idx == {db[k].host : k \in sel}
      of(h) == {k \in sel : db[k].host = h}
  IN [h \in idx |->
        [transfer_time |-> SumOver([k \in sel |-> db[k].transfer_time], of(h)),
         transfer_size |-> SumOver([k \in sel |-> db[k].transfer_size], of(h))]]

\* A sort key is a rational n / d with d > 0.
Rat(n, d) == [n |-> n, d |-> d]
RatLeq(a, b) == a.n * b.d <= b.n * a.d
rate(df_rate, h) == Rat(df_rate[h].transfer_size, df_rate[h].transfer_time)

\* df_rate["rate"].max()
MaxRate(df_rate) ==
  LET h == CHOOSE x \in DOMAIN df_rate :
             \A y \in DOMAIN df_rate : RatLeq(rate(df_rate, y), rate(df_rate, x))
  IN rate(df_rate, h)

\* The host of a link: link[: link.index("/", 10)] without the scheme.
Links == [scheme : {"https"}, host : Hosts]
HostOf(link) == link.host

\* sort_download_links: rnd / RandDen is the draw of np.random.rand, in [0, 1).
sort_download_links(link, df_rate, rnd) ==
  IF DOMAIN df_rate = {} THEN Rat(rnd, RandDen)
  ELSE IF HostOf(link) \notin DOMAIN df_rate
       THEN LET m == MaxRate(df_rate)
            IN Rat(m.n * RandDen + rnd * m.d, m.d * RandDen)
       ELSE rate(df_rate, HostOf(link))

\* sorted(seq, key=...): ascending in the key, stable.
InsertByKey(out, outkeys, x, kx) ==
  \* the position after every element whose key is <= kx
  LET p == Cardinality({j \in 1..Len(out) : RatLeq(outkeys[j], kx)})
  IN [seq |-> SubSeq(out, 1, p) \o <<x>> \o SubSeq(out, p + 1, Len(out)),
      keys |-> SubSeq(outkeys, 1, p) \o <<kx>> \o SubSeq(outkeys, p + 1, Len(outkeys))]

RECURSIVE SortedUpTo(_, _, _)
SortedUpTo(seq, keys, n) ==
  IF n = 0 THEN [seq |-> <<>>, keys |-> <<>>]
  ELSE LET prev == SortedUpTo(seq, keys, n - 1)
       IN InsertByKey(prev.seq, prev.keys, seq[n], keys[n])

sorted(seq, keys) == SortedUpTo(seq, keys, Len(seq)).seq


\* ------------------------------------------------------------------------
\* State
\* ------------------------------------------------------------------------
VARIABLES
  \* configuration and the world shared by the parts
  local_cache,      \* the writable caches of the catalog, in order
  esg_dataroot,     \* the read-only data roots of the catalog, in order
  files,            \* location -> content
  download_db,      \* the rows of the downloads table, in insertion order
  dsd,              \* key -> list of paths (the dictionary being built)
  \* parallel_download of one FileInfo
  info,             \* the FileInfo being downloaded
  pd_pc,            \* "call" | "loop" | "returned" | "loaded"
  url_i,            \* position in info["HTTPServer"] of the next url to try
  local_file,       \* the local variable local_file of parallel_download
  pd_last,          \* the last call of download_and_verify: url, response, raised
  pd_rows0,         \* the number of rows of download_db when the call began
  pd_result,        \* the returned pair
  \* to_path_dict and partition_infos
  df,               \* the catalog rows (their master-id facet values)
  infos,            \* the merged file information, a list
  prefer_streaming,
  prefer_globus,
  break_on_error,   \* conf["break_on_error"]
  minimal_keys,
  tasks,            \* the Globus transfers submitted: source endpoint and items
  tp_pc,            \* "partition" | "submit" | "download" | "monitor" | "finish" | "done"
  p_i,              \* partition_infos: the position of the next FileInfo
  infos_exist,      \* the four classes, as positions in infos
  infos_stream,
  infos_globus,
  infos_https,
  active_endpoints, \* partition_infos: the endpoints found live so far
  ep_queries,       \* the endpoints asked for with client.get_endpoint, in order
  tp_warning,       \* the keys named by the warning of to_path_dict, if any
  tp_result,        \* what to_path_dict returned or raised
  \* search and from_tracking_ids
  op,               \* "search" | "from_tracking_ids"
  indices,          \* the kind of each index of the catalog, in order
  answers,          \* what each index answers to the query
  sr_pc,            \* "fanout" | "combine" | "latest" | "done"
  sr_dfs,           \* the frames the wrapped calls returned, in arrival order
  sr_warned,        \* the indices a warning was issued for
  sr_result,        \* what the operation returned or raised
  \* Config
  conf,             \* the configuration, key -> value
  cf_scopes,        \* the scopes of conf.set(...) that are open, innermost last
  cf_last,          \* the last thing done to the configuration
  set_arg,          \* the arguments of the last plain call of conf.set
  \* a second call of to_path_dict
  tp_first,         \* what the first call left, once a second call has begun
  \* model groups of a catalog
  project,          \* the project of the catalog
  cat_df,           \* self.df of the catalog whose groups are formed
  gr_last,          \* the last operation on the groups: its input and result
  \* the Globus transfers as monitor_globus_transfer meets them
  task_status,      \* the status the service holds for each submitted task
  polled,           \* the status of the last response got for each task
  mon_error,        \* the response that GlobusTransferError carries, if raised
  \* the thread pool of to_path_dict and the downloads table as a file
  num_threads,      \* conf["num_threads"]
  pool,             \* worker -> the FileInfo it holds and whether it is writing
  w_next,           \* the position in infos["https"] of the next FileInfo handed out
  db_file,          \* whether the file of the downloads table exists
  \* esg_search and the index it asks
  backend,          \* "stable": one result set, full pages; "any": what it likes
  num_found,        \* the size of the result set of a stable backend
  page,             \* the most documents the backend puts in one response
  search_offset,    \* search["offset"], sent with the next request
  offset,           \* the locals of esg_search
  limit,
  total,
  es_pc,            \* "loop" | "done"
  yielded,          \* the documents of the responses yielded, in order
  \* get_download_rate_dataframe with a time window
  rate_rows,        \* the rows of the downloads table with their age in days
  history,          \* None | "day" | "week" | "month"
  rate_df,          \* the table returned
  rt_pc,            \* "call" | "done"
  \* expand_cmip5_record
  search_vars,      \* the variables the search named
  content_vars,     \* the variables the record declares
  records,          \* the records returned
  ex_pc,            \* "call" | "done"
  \* session_log
  log,              \* the time stamp of each line of the log file, oldest first
  session_time,     \* self.session_time of the catalog
  sl_result,        \* what session_log returned (positions of lines) or raised
  sl_pc,            \* "call" | "done"
  \* the catalog through search, from_tracking_ids and to_path_dict
  catalog,          \* self.df, self.project and self.last_search
  ct_last,          \* the last call of search or from_tracking_ids, and its end
  ct_infos,         \* the last call of _get_file_info: its facets and its result
  ct_keys           \* the keys that the end of to_path_dict gave the rows

worldVars == <<local_cache, esg_dataroot, files, download_db, dsd>>
dlVars == <<info, pd_pc, url_i, local_file, pd_last, pd_rows0, pd_result>>
tpArgs == <<prefer_streaming, prefer_globus, break_on_error, minimal_keys>>
tpClasses == <<infos_exist, infos_stream, infos_globus, infos_https>>
tpRun == <<infos, tasks, tp_pc, p_i, tpClasses, active_endpoints, ep_queries,
           tp_warning, tp_result>>
tpVars == <<df, tpArgs, tpRun>>
srVars == <<op, indices, answers, sr_pc, sr_dfs, sr_warned, sr_result>>
cfVars == <<conf, cf_scopes, cf_last, set_arg>>
\* the variables of the parts that follow the three above
grVars == <<project, cat_df, gr_last>>
monVars == <<task_status, polled, mon_error>>
wkVars == <<num_threads, pool, w_next, db_file>>
pgVars == <<backend, num_found, page, search_offset, offset, limit, total, es_pc, yielded>>
\* the variables of the parts added last
rtVars == <<rate_rows, history, rate_df, rt_pc>>
exVars == <<search_vars, content_vars, records, ex_pc>>
slVars == <<log, session_time, sl_result, sl_pc>>
ctVars == <<catalog, ct_last, ct_infos, ct_keys>>
lateVars == <<pgVars, rtVars, exVars, slVars, ctVars>>
moreVars == <<grVars, monVars, wkVars, lateVars>>
extVars == <<cfVars, tp_first, moreVars>>

PathNames == <<"f1", "f2", "f3", "f4">>

Locations(nr, nc, paths) ==
  {Join(DataRoots(nr)[k], p) : k \in 1..nr, p \in paths}
    \cup {Join(Caches(nc)[k], p) : k \in 1..nc, p \in paths}

\* ------------------------------------------------------------------------
\* download_and_verify (base.py)
\* ------------------------------------------------------------------------
\* What the server does with one GET:
\*   "refused"  requests.get or raise_for_status raises (no connection, a
\*              timeout, a status that is not 2xx)
\*   "dropped"  the body stops with an exception part-way through iter_content
\*   "bad"      a 2xx response whose complete body is not the published bytes
\*   "good"     a 2xx response with the published bytes
Responses == {"refused", "dropped", "bad", "good"}

\* the digest of a file with the given content
get_file_hash(content) ==
  CASE content = "good" -> "h_good"
    [] content = "bad" -> "h_bad"
    [] content = "partial" -> "h_partial"
    [] OTHER -> None
GoodChecksum == get_file_hash("good")

write(fs, f, content) == [fs EXCEPT ![f] = content]
unlink_kept(fs, f) == fs
unlink(fs, f) == [fs EXCEPT ![f] = "absent"]

\* The state after download_and_verify(url, lf, hash, hash_algorithm,
\* content_length, download_db) and whether it raised.
download_and_verify(url, lf, hash, hash_algorithm, content_length, resp, t, fs, db) ==
  IF resp = "refused"
  THEN [files |-> fs, db |-> db, raised |-> TRUE]
  ELSE IF resp = "dropped"
  THEN [files |-> write(fs, lf, "partial"), db |-> db, raised |-> TRUE]
  ELSE LET written == write(fs, lf, resp) IN
       IF hash_algorithm = None
       THEN \* get_file_hash: algorithm.lower() raises on None
            [files |-> written, db |-> db, raised |-> TRUE]
       ELSE IF get_file_hash(written[lf]) # hash
       THEN [files |-> unlink(written, lf), db |-> db, raised |-> TRUE]
       ELSE [files |-> written,
             db |-> log_download_information(db, HostOf(url), t, MbOf(content_length)),
             raised |-> FALSE]

\* ------------------------------------------------------------------------
\* parallel_download (base.py)
\* ------------------------------------------------------------------------
\* The first root of the list under which path exists, or NoPath.
RECURSIVE FirstExisting(_, _, _, _)
FirstExisting(fs, roots, path, k) ==
  IF k > Len(roots) THEN NoPath
  ELSE IF exists(fs, Join(roots[k], path)) THEN Join(roots[k], path)
  ELSE FirstExisting(fs, roots, path, k + 1)

\* The value left in local_file by the two search loops when nothing is found:
\* the candidate built from the last root looked at.
LastCandidate(roots, path) ==
  IF Len(roots) = 0 THEN NoPath ELSE Join(roots[Len(roots)], path)

NoLink == [scheme |-> None, host |-> None]
NoCall == [url |-> NoLink, resp |-> None, raised |-> FALSE]

\* parallel_download up to the loop over the urls: look for a local copy, else
\* rank the links
PDCall ==
  /\ pd_pc = "call"
  /\ pd_rows0' = Len(download_db)
  /\ LET found == FirstExisting(files, esg_dataroot \o local_cache, info.path, 1) IN
     IF found # NoPath
     THEN /\ local_file' = found
          /\ pd_result' = <<info.key, found>>
          /\ pd_pc' = "returned"
          /\ UNCHANGED <<info, url_i>>
     ELSE \E rnd \in [1..Len(info.HTTPServer) -> 0..(RandDen - 1)] :
            LET df_rate == get_download_rate_dataframe(download_db, MinimumSize)
                keys == [k \in 1..Len(info.HTTPServer) |->
                           sort_download_links(info.HTTPServer[k], df_rate, rnd[k])]
            IN /\ info' = [info EXCEPT !.HTTPServer = sorted(info.HTTPServer, keys)]
               /\ local_file' = LastCandidate(esg_dataroot \o local_cache, info.path)
               /\ url_i' = 1
               /\ pd_pc' = "loop"
               /\ UNCHANGED pd_result
  /\ UNCHANGED <<worldVars, pd_last>>
  /\ UNCHANGED <<tpVars, srVars, extVars>>

\* one pass of "for url in info['HTTPServer']"
PDTry ==
  /\ pd_pc = "loop"
  /\ url_i <= Len(info.HTTPServer)
  /\ \E resp \in Responses, t \in Times :
       LET url == info.HTTPServer[url_i]
           target == Join(local_cache[1], info.path)
           r == download_and_verify(url, target, info.checksum, info.checksum_type,
                                    info.size, resp, t, files, download_db)
       IN /\ files' = r.files
          /\ download_db' = r.db
          /\ pd_last' = [url |-> url, resp |-> resp, raised |-> r.raised]
          /\ IF r.raised
             THEN /\ url_i' = url_i + 1
                  /\ UNCHANGED <<pd_pc, pd_result>>
             ELSE IF exists(r.files, local_file)
                  THEN /\ pd_result' = <<info.key, local_file>>
                       /\ pd_pc' = "returned"
                       /\ UNCHANGED url_i
                  ELSE /\ url_i' = url_i + 1
                       /\ UNCHANGED <<pd_pc, pd_result>>
  /\ UNCHANGED <<local_cache, esg_dataroot, dsd, info, local_file, pd_rows0>>
  /\ UNCHANGED <<tpVars, srVars, extVars>>

\* the loop is over: return None, None
PDExhausted ==
  /\ pd_pc = "loop"
  /\ url_i > Len(info.HTTPServer)
  /\ pd_result' = <<NoKey, NoPath>>
  /\ pd_pc' = "returned"
  /\ UNCHANGED <<worldVars, info, url_i, local_file, pd_last, pd_rows0>>
  /\ UNCHANGED <<tpVars, srVars, extVars>>

\* ------------------------------------------------------------------------
\* _load_into_dsd (catalog.py), for the FileInfo just handled
\* ------------------------------------------------------------------------
\* get_local_file: the first root / path that is a file, NoPath for
\* FileNotFoundError
get_local_file_last(fs, path, dataroots) ==
  LET hits == {k \in 1..Len(dataroots) : is_file(fs, Join(dataroots[k], path))}
  IN IF hits = {} THEN NoPath
     ELSE Join(dataroots[CHOOSE k \in hits : \A q \in hits : q <= k], path)
get_local_file(fs, path, dataroots) == FirstExisting(fs, dataroots, path, 1)

EmptyDict == [k \in {} |-> <<>>]

\* dsd[key] += [path], creating the entry when the key is new
AddPath(d, key, path) ==
  [k \in DOMAIN d \cup {key} |->
     IF k \in DOMAIN d
     THEN (IF k = key THEN Append(d[k], path) ELSE d[k])
     ELSE <<path>>]

load_one_skipped(d, fs, inf, caches) == d
load_one(d, fs, inf, caches) ==
  LET path == get_local_file(fs, inf.path, caches)
  IN IF path = NoPath THEN d ELSE AddPath(d, inf.key, path)

PDLoad ==
  /\ pd_pc = "returned"
  /\ dsd' = load_one(dsd, files, info, local_cache)
  /\ pd_pc' = "loaded"
  /\ UNCHANGED <<local_cache, esg_dataroot, files, download_db>>
  /\ UNCHANGED <<info, url_i, local_file, pd_last, pd_rows0, pd_result>>
  /\ UNCHANGED <<tpVars, srVars, extVars>>

\* the state of a catalog on which to_path_dict is not running
NoInfo == [key |-> NoKey, path |-> None, HTTPServer |-> <<>>, size |-> 0,
           checksum |-> None, checksum_type |-> None]

NoResult == [kind |-> "none", exc |-> None, value |-> EmptyDict]
Raise(exc) == [kind |-> "raise", exc |-> exc, value |-> EmptyDict]
Return(value) == [kind |-> "return", exc |-> None, value |-> value]

TPIdle ==
  /\ df = <<>>
  /\ infos = <<>>
  /\ prefer_streaming = FALSE
  /\ prefer_globus = FALSE
  /\ break_on_error = TRUE
  /\ minimal_keys = TRUE
  /\ tasks = <<>>
  /\ tp_pc = "idle"
  /\ p_i = 0
  /\ infos_exist = <<>>
  /\ infos_stream = <<>>
  /\ infos_globus = <<>>
  /\ infos_https = <<>>
  /\ active_endpoints = {}
  /\ ep_queries = <<>>
  /\ tp_warning = {}
  /\ tp_result = NoResult

SRIdle ==
  /\ op = None
  /\ indices = <<>>
  /\ answers = <<>>
  /\ sr_pc = "idle"
  /\ sr_dfs = <<>>
  /\ sr_warned = {}
  /\ sr_result = NoResult

\* ------------------------------------------------------------------------
\* Config (config.py)
\* ------------------------------------------------------------------------
\* the keys of the configuration that are followed, with their defaults: one
\* index of each table, and break_on_error
defaults ==
  [ stac_indices |-> [x \in {"api.stac.ceda.ac.uk"} |-> FALSE],
    globus_indices |-> [x \in {"anl-dev"} |-> FALSE],
    solr_indices |-> [x \in {"esgf-node.ornl.gov"} |-> FALSE],
    break_on_error |-> TRUE ]

\* conf.set() with nothing given
NoArg ==
  [indices |-> [k \in {} |-> FALSE], no_indices |-> FALSE, all_indices |-> FALSE,
   break_on_error |-> None]

CFIdle ==
  /\ conf = defaults
  /\ cf_scopes = <<>>
  /\ cf_last = "none"
  /\ set_arg = NoArg

\* no second call of to_path_dict yet
NoFirst ==
  [called |-> FALSE, result |-> NoResult, warned |-> FALSE, rows |-> 0, local |-> FALSE]

\* no operation on the model groups yet
NoOp == [op |-> None, complete |-> None, before |-> <<>>, result |-> NoResult]
GRIdle ==
  /\ project = "CMIP6"
  /\ cat_df = <<>>
  /\ gr_last = NoOp

\* no transfer submitted
NoError == [task |-> 0, status |-> None]
MonIdle ==
  /\ task_status = <<>>
  /\ polled = <<>>
  /\ mon_error = NoError

\* no thread pool
WKIdle ==
  /\ num_threads = 1
  /\ pool = <<>>
  /\ w_next = 0
  /\ db_file = TRUE

\* "limit = search.get('limit', 1000)"
DefaultLimit == 1000

\* no search under way
PGIdle ==
  /\ backend = "stable"
  /\ num_found = 0
  /\ page = 1
  /\ search_offset = 0
  /\ offset = 0
  /\ limit = DefaultLimit
  /\ total = DefaultLimit + 1
  /\ es_pc = "done"
  /\ yielded = <<>>

\* no table asked for
RTIdle ==
  /\ rate_rows = <<>>
  /\ history = None
  /\ rate_df = <<>>
  /\ rt_pc = "done"

\* no record expanded
EXIdle ==
  /\ search_vars = <<>>
  /\ content_vars = <<>>
  /\ records = <<>>
  /\ ex_pc = "done"

\* no log asked for
SLIdle ==
  /\ log = <<>>
  /\ session_time = 0
  /\ sl_result = NoResult
  /\ sl_pc = "done"

NoSearch == [project |-> None, facet |-> None, values |-> <<>>]
NoCatalog == [df |-> <<>>, project |-> None, last_search |-> NoSearch]
NoFacets == [facet |-> None, values |-> <<>>]
NoQuery == [separator |-> <<>>, search_facets |-> NoFacets, infos |-> {}, asked |-> FALSE]
NoKeys == [minimal_keys |-> FALSE, ignore_facets |-> {}, separator |-> <<>>,
           returned |-> <<>>, made |-> FALSE]

CTIdle ==
  /\ catalog = NoCatalog
  /\ ct_last = [op |-> None, kind |-> "none", exc |-> None]
  /\ ct_infos = NoQuery
  /\ ct_keys = NoKeys

LateIdle == PGIdle /\ RTIdle /\ EXIdle /\ SLIdle /\ CTIdle

MoreIdle == GRIdle /\ MonIdle /\ WKIdle /\ LateIdle

ExtIdle == CFIdle /\ tp_first = NoFirst /\ MoreIdle

PDIdle ==
  /\ info = NoInfo
  /\ pd_pc = "idle"
  /\ url_i = 0
  /\ local_file = NoPath
  /\ pd_last = NoCall
  /\ pd_rows0 = 0
  /\ pd_result = <<>>

\* ------------------------------------------------------------------------
\* The catalog rows and their keys (catalog.py)
\* ------------------------------------------------------------------------
\* A facet value and a key are strings, kept as sequences of tokens so that
\* joining is concatenation. The rows of the model differ in two of the
\* master-id facets of the project.
master_id_facets == <<"source_id", "variable_id">>
variable_facet == "variable_id"
Separator == <<".">>

\* separator.join(values)
RECURSIVE JoinSep(_, _)
JoinSep(values, sep) ==
  IF Len(values) = 0 THEN <<>>
  ELSE IF Len(values) = 1 THEN values[1]
  ELSE values[1] \o sep \o JoinSep(Tail(values), sep)

\* separator.join([row[f] for f in facets])
KeyOf(row, facets, sep) == JoinSep([k \in 1..Len(facets) |-> row[facets[k]]], sep)

\* SelectSeq with the test as a set of positions
RECURSIVE Pick(_, _, _)
Pick(seq, keep, k) ==
  IF k > Len(seq) THEN <<>>
  ELSE (IF k \in keep THEN <<seq[k]>> ELSE <<>>) \o Pick(seq, keep, k + 1)

\* the master-id facets that take more than one value in the catalog and are
\* not ignored; the variable facet when there is none
minimal_key_format(rows, ignore_facets) ==
  LET keep == {k \in 1..Len(master_id_facets) :
                 /\ \E r \in 1..Len(rows) :
                      rows[1][master_id_facets[k]] # rows[r][master_id_facets[k]]
                 /\ master_id_facets[k] \notin ignore_facets}
      fmt == Pick(master_id_facets, keep, 1)
  IN IF fmt = <<>> THEN <<variable_facet>> ELSE fmt

Row(m, v) == [source_id |-> <<m>>, variable_id |-> <<v>>]
FullKey(row) == KeyOf(row, master_id_facets, Separator)
DfKeys(rows) == {FullKey(rows[k]) : k \in 1..Len(rows)}

\* ------------------------------------------------------------------------
\* partition_infos (base.py)
\* ------------------------------------------------------------------------
\* get_globus_endpoints: the uuid of every Globus link of the info
get_globus_endpoints_any(inf) == <<"e1">>
get_globus_endpoints(inf) == inf.Globus

\* links of the preferred streaming sources present in the info, the sources
\* taken in the order the set intersection yields them
StreamLinks(inf, order) == inf[order[1]] \o inf[order[2]]
PreferredOrders == {<<"VirtualZarr", "OPENDAP">>, <<"OPENDAP", "VirtualZarr">>}

\* ds[key] = [link]
SetPaths(d, key, paths) ==
  [k \in DOMAIN d \cup {key} |-> IF k = key THEN paths ELSE d[k]]

\* the endpoints of the list that a pass of "for uuid in source_endpoints" asks
\* the transfer client about: those not already known to be live
RECURSIVE Queried(_, _, _, _)
Queried(eps, active, live, k) ==
  IF k > Len(eps) THEN <<>>
  ELSE IF eps[k] \in active THEN Queried(eps, active, live, k + 1)
  ELSE <<eps[k]>> \o
       Queried(eps, IF live[eps[k]] THEN active \cup {eps[k]} ELSE active, live, k + 1)

Endpoints == {"e1", "e2"}

\* to_path_dict begins: an empty catalog has nothing to retrieve
TPCall ==
  /\ tp_pc = "call"
  /\ IF Len(df) = 0
     THEN /\ tp_result' = Raise("ValueError")
          /\ tp_pc' = "done"
     ELSE /\ tp_pc' = "partition"
          /\ UNCHANGED tp_result
  /\ UNCHANGED worldVars
  /\ UNCHANGED <<df, tpArgs, infos, tasks, p_i, tpClasses, active_endpoints,
                 ep_queries, tp_warning>>
  /\ UNCHANGED <<dlVars, srVars, extVars>>

\* infos_exist.append(info), and the same for the other classes
append_lost(lst, x) == lst
append(lst, x) == Append(lst, x)

\* one pass of "for i, info in enumerate(infos)"
TPPartition ==
  /\ tp_pc = "partition"
  /\ p_i <= Len(infos)
  /\ LET inf == infos[p_i]
         key == inf.key
         local_path == get_local_file(files, inf.path, esg_dataroot \o local_cache)
     IN
     IF local_path # NoPath
     THEN \* 1) the file exists locally
          /\ dsd' = AddPath(dsd, key, local_path)
          /\ infos_exist' = append(infos_exist, p_i)
          /\ UNCHANGED <<infos, infos_stream, infos_globus, infos_https,
                         active_endpoints, ep_queries>>
     ELSE \E order \in PreferredOrders,
             live \in [Range(get_globus_endpoints(inf)) \cap Endpoints -> BOOLEAN] :
          IF prefer_streaming /\ StreamLinks(inf, order) # <<>>
          THEN \* 2) streaming
               /\ dsd' = SetPaths(dsd, key, <<StreamLinks(inf, order)[1]>>)
               /\ infos_stream' = append(infos_stream, p_i)
               /\ UNCHANGED <<infos, infos_exist, infos_globus, infos_https,
                              active_endpoints, ep_queries>>
          ELSE IF prefer_globus
          THEN \* 3) globus, when one of the endpoints of the info is live
               LET source_endpoints == get_globus_endpoints(inf)
                   asked == Queried(source_endpoints, active_endpoints, live, 1)
                   active == active_endpoints \cup {e \in Range(asked) : live[e]}
                   mine == active \cap Range(source_endpoints)
               IN /\ ep_queries' = ep_queries \o asked
                  /\ active_endpoints' = active
                  /\ IF mine # {}
                     THEN /\ infos' = [infos EXCEPT ![p_i].active_endpoints = mine]
                          /\ infos_globus' = append(infos_globus, p_i)
                          /\ UNCHANGED infos_https
                     ELSE /\ infos_https' = append(infos_https, p_i)
                          /\ UNCHANGED <<infos, infos_globus>>
                  /\ UNCHANGED <<dsd, infos_exist, infos_stream>>
          ELSE \* 4) https
               /\ infos_https' = append(infos_https, p_i)
               /\ UNCHANGED <<dsd, infos, infos_exist, infos_stream, infos_globus,
                              active_endpoints, ep_queries>>
  /\ p_i' = p_i + 1
  /\ UNCHANGED <<local_cache, esg_dataroot, files, download_db>>
  /\ UNCHANGED <<df, tpArgs, tasks, tp_pc, tp_warning, tp_result>>
  /\ UNCHANGED <<dlVars, srVars, extVars>>

\* the loop is over: the assertion on the class sizes, then return
TPPartitioned ==
  /\ tp_pc = "partition"
  /\ p_i > Len(infos)
  /\ IF Len(infos) = Len(infos_exist) + Len(infos_stream) + Len(infos_globus)
                       + Len(infos_https)
     THEN /\ tp_pc' = "submit"
          /\ UNCHANGED tp_result
     ELSE /\ tp_pc' = "done"
          /\ tp_result' = Raise("AssertionError")
  /\ UNCHANGED worldVars
  /\ UNCHANGED <<df, tpArgs, infos, tasks, p_i, tpClasses, active_endpoints,
                 ep_queries, tp_warning>>
  /\ UNCHANGED <<dlVars, srVars, extVars>>

\* ------------------------------------------------------------------------
\* to_path_dict after the partition (catalog.py), create_globus_transfer and
\* monitor_globus_transfer (core/globus.py)
\* ------------------------------------------------------------------------
\* the number of files of the list available on each live endpoint
EndpointCount_one(infs, idxs, e) == 1
EndpointCount(infs, idxs, e) ==
  Cardinality({k \in 1..Len(idxs) : e \in infs[idxs[k]].active_endpoints})

\* the first file of the list that brings the endpoint into the dictionary
FirstWith(infs, idxs, e) ==
  CHOOSE k \in 1..Len(idxs) :
    /\ e \in infs[idxs[k]].active_endpoints
    /\ \A q \in 1..(k - 1) : e \notin infs[idxs[q]].active_endpoints

\* sorted(active_endpoints, key=active_endpoints.get, reverse=True): the
\* greater count first, equal counts in the order the endpoints entered the
\* dictionary; two that entered with the same file come in either order
BySize(infs, idxs) ==
  LET eps == UNION {infs[idxs[k]].active_endpoints : k \in 1..Len(idxs)}
  IN {order \in [1..Cardinality(eps) -> eps] :
       /\ Range(order) = eps
       /\ \A a, b \in 1..Cardinality(eps) :
            a < b =>
              \/ EndpointCount(infs, idxs, order[a]) > EndpointCount(infs, idxs, order[b])
              \/ /\ EndpointCount(infs, idxs, order[a]) = EndpointCount(infs, idxs, order[b])
                 /\ FirstWith(infs, idxs, order[a]) <= FirstWith(infs, idxs, order[b])}

\* one task per source endpoint that still has files to add, each file in
\* the first task whose source holds it
RECURSIVE BuildTasks(_, _, _, _, _)
BuildTasks(infs, idxs, order, added, k) ==
  IF k > Len(order) THEN <<>>
  ELSE LET items == {i \in Range(idxs) \ added : order[k] \in Range(infs[i].Globus)}
       IN (IF items = {} THEN <<>> ELSE <<[source |-> order[k], items |-> items]>>)
          \o BuildTasks(infs, idxs, order, added \cup items, k + 1)

\* the statuses of a Globus task; a task that was never asked about
TaskStatuses == {"ACTIVE", "INACTIVE", "SUCCEEDED", "FAILED"}
Unpolled == "unpolled"

\* "if prefer_globus: tasks = create_globus_transfer(...)"
TPSubmit ==
  /\ tp_pc = "submit"
  /\ \E destination_ok \in BOOLEAN, order \in BySize(infos, infos_globus) :
       IF prefer_globus /\ infos_globus # <<>>
       THEN IF destination_ok
            THEN /\ tasks' = BuildTasks(infos, infos_globus, order, {}, 1)
                 /\ tp_pc' = "download"
                 /\ UNCHANGED tp_result
            ELSE /\ tp_result' = Raise("ValueError")
                 /\ tp_pc' = "done"
                 /\ UNCHANGED tasks
       ELSE /\ tasks' = <<>>
            /\ tp_pc' = "download"
            /\ UNCHANGED tp_result
  /\ task_status' = [k \in 1..Len(tasks') |-> "ACTIVE"]
  /\ polled' = [k \in 1..Len(tasks') |-> Unpolled]
  /\ UNCHANGED mon_error
  /\ UNCHANGED worldVars
  /\ UNCHANGED <<df, tpArgs, infos, p_i, tpClasses, active_endpoints, ep_queries, tp_warning>>
  /\ UNCHANGED <<dlVars, srVars, cfVars, tp_first, grVars, wkVars, lateVars>>

\* parallel_download of the files of the list, each answered by resps[k]; a
\* file of the planner has one url and one cache to go to
RECURSIVE DownloadAll(_, _, _, _, _, _, _)
DownloadAll(fs, db, infs, idxs, caches, resps, k) ==
  IF k > Len(idxs) THEN [files |-> fs, db |-> db]
  ELSE LET inf == infs[idxs[k]]
           r == download_and_verify(inf.HTTPServer[1], Join(caches[1], inf.path),
                                    inf.checksum, inf.checksum_type, inf.size,
                                    resps[k], 1, fs, db)
       IN DownloadAll(r.files, r.db, infs, idxs, caches, resps, k + 1)

\* _load_into_dsd
RECURSIVE load_into_dsd(_, _, _, _, _, _)
load_into_dsd(d, fs, infs, idxs, caches, k) ==
  IF k > Len(idxs) THEN d
  ELSE load_into_dsd(load_one(d, fs, infs[idxs[k]], caches), fs, infs, idxs, caches, k + 1)

\* the thread pool over infos["https"], then _load_into_dsd(dsd, infos["https"])
TPDownload ==
  /\ tp_pc = "download"
  /\ \E resps \in [1..Len(infos_https) -> Responses] :
       LET r == DownloadAll(files, download_db, infos, infos_https, local_cache, resps, 1)
       IN /\ files' = r.files
          /\ download_db' = r.db
          /\ dsd' = load_into_dsd(dsd, r.files, infos, infos_https, local_cache, 1)
  /\ tp_pc' = "monitor"
  /\ UNCHANGED <<local_cache, esg_dataroot>>
  /\ UNCHANGED <<df, tpArgs, infos, tasks, p_i, tpClasses, active_endpoints, ep_queries,
                 tp_warning, tp_result>>
  /\ UNCHANGED <<dlVars, srVars, extVars>>

\* the files of the tasks that succeeded, at the destination
RECURSIVE Landed(_, _, _, _, _, _)
Landed(fs, infs, tsks, status, caches, k) ==
  IF k > Len(tsks) THEN fs
  ELSE Landed([f \in DOMAIN fs |->
                 IF /\ status[k] = "SUCCEEDED"
                    /\ \E i \in tsks[k].items : f = Join(caches[1], infs[i].path)
                 THEN "good" ELSE fs[f]],
              infs, tsks, status, caches, k + 1)

\* monitor_globus_transfer, then _load_into_dsd(dsd, infos["globus"]); the
\* destination is the local cache or a place the catalog does not look in
\* the first task of the list that the service does not report SUCCEEDED,
\* one past the list if there is none
FirstNotSucceeded(status) ==
  LET bad == {k \in 1..Len(status) : status[k] # "SUCCEEDED"}
  IN IF bad = {} THEN Len(status) + 1
     ELSE CHOOSE k \in bad : \A j \in bad : k <= j

\* "for task_doc in tasks": each task is asked about until it is no longer
\* ACTIVE, and the first one that is not SUCCEEDED ends the loop
monitor_globus_transfer_quiet(status) == [polled |-> status, error |-> NoError]
monitor_globus_transfer(status) ==
  LET stop == FirstNotSucceeded(status)
  IN [polled |-> [k \in 1..Len(status) |-> IF k <= stop THEN status[k] ELSE Unpolled],
      error |-> IF stop <= Len(status)
                THEN [task |-> stop, status |-> status[stop]]
                ELSE NoError]

\* monitor_globus_transfer, then _load_into_dsd(dsd, infos["globus"]); the
\* destination is the local cache or a place the catalog does not look in.
\* status is what the service holds for each task when the call ends: the
\* tasks the loop waited for have left ACTIVE
TPMonitor ==
  /\ tp_pc = "monitor"
  /\ IF prefer_globus /\ infos_globus # <<>>
     THEN \E status \in [1..Len(tasks) -> TaskStatuses], into_cache \in BOOLEAN :
            LET m == monitor_globus_transfer(status)
            IN /\ \A k \in 1..Len(tasks) : k <= FirstNotSucceeded(status) => status[k] # "ACTIVE"
               /\ files' = IF into_cache
                           THEN Landed(files, infos, tasks, status, local_cache, 1)
                           ELSE files
               /\ task_status' = status
               /\ polled' = m.polled
               /\ mon_error' = m.error
               /\ IF m.error # NoError
                  THEN /\ tp_result' = Raise("GlobusTransferError")
                       /\ tp_pc' = "done"
                       /\ UNCHANGED dsd
                  ELSE /\ dsd' = load_into_dsd(dsd, files', infos, infos_globus, local_cache, 1)
                       /\ tp_pc' = "finish"
                       /\ UNCHANGED tp_result
     ELSE /\ tp_pc' = "finish"
          /\ UNCHANGED <<files, dsd, tp_result, monVars>>
  /\ UNCHANGED <<local_cache, esg_dataroot, download_db>>
  /\ UNCHANGED <<df, tpArgs, infos, tasks, p_i, tpClasses, active_endpoints, ep_queries,
                 tp_warning>>
  /\ UNCHANGED <<dlVars, srVars, cfVars, tp_first, grVars, wkVars, lateVars>>

\* the keys of the catalog that the dictionary does not hold
Missed(rows, d) == DfKeys(rows) \ DOMAIN d

\* {key_new: dsd[key_old] for key_old, key_new in key_map.items()}: a later
\* row overwrites an earlier one with the same new key
Rekeyed(rows, d, key_format) ==
  LET key_new(r) == KeyOf(rows[r], key_format, Separator)
      last(kn) == CHOOSE r \in 1..Len(rows) :
                    /\ key_new(r) = kn
                    /\ \A q \in 1..Len(rows) : key_new(q) = kn => q <= r
  IN [kn \in {key_new(r) : r \in 1..Len(rows)} |-> d[FullKey(rows[last(kn)])]]

\* the end of to_path_dict: the warning, the exception, the keys
TPFinish ==
  /\ tp_pc = "finish"
  /\ LET missed == Missed(df, dsd)
     IN /\ tp_warning' = missed
        /\ IF missed # {} /\ break_on_error
           THEN tp_result' = Raise("MissingFileInformation")
           ELSE IF minimal_keys
           THEN IF \E r \in 1..Len(df) : FullKey(df[r]) \notin DOMAIN dsd
                THEN tp_result' = Raise("KeyError")
                ELSE tp_result' = Return(Rekeyed(df, dsd, minimal_key_format(df, {})))
           ELSE tp_result' = Return(dsd)
  /\ tp_pc' = "done"
  /\ UNCHANGED worldVars
  /\ UNCHANGED <<df, tpArgs, infos, tasks, p_i, tpClasses, active_endpoints, ep_queries>>
  /\ UNCHANGED <<dlVars, srVars, extVars>>

\* ------------------------------------------------------------------------
\* The downloader as a state machine
\* ------------------------------------------------------------------------
ChecksumCases ==
  { [checksum |-> GoodChecksum, checksum_type |-> "sha256"],
    [checksum |-> None, checksum_type |-> None] }

FileInfos ==
  { [key |-> <<"k1">>, path |-> PathNames[1], HTTPServer |-> h, size |-> z,
     checksum |-> c.checksum, checksum_type |-> c.checksum_type] :
      h \in SeqsUpTo(Links, MaxUrls), z \in Sizes, c \in ChecksumCases }

InitDownload ==
  /\ \E nc \in 1..MaxCaches, nr \in 0..MaxRoots :
       /\ local_cache = Caches(nc)
       /\ esg_dataroot = DataRoots(nr)
       /\ files \in [Locations(nr, nc, {PathNames[1]}) -> {"absent", "good"}]
  /\ download_db \in SeqsUpTo(Rows, MaxRows)
  /\ dsd = EmptyDict
  /\ info \in FileInfos
  /\ pd_pc = "call"
  /\ url_i = 0
  /\ local_file = NoPath
  /\ pd_last = NoCall
  /\ pd_rows0 = 0
  /\ pd_result = <<>>
  /\ TPIdle
  /\ SRIdle
  /\ ExtIdle

NextDownload == PDCall \/ PDTry \/ PDExhausted \/ PDLoad

vars == <<worldVars, dlVars, tpVars, srVars, extVars>>

SpecDownload == InitDownload /\ [][NextDownload]_vars

\* ------------------------------------------------------------------------
\* to_path_dict as a state machine
\* ------------------------------------------------------------------------
MaxInfos == 2

DfCases ==
  { <<>>,
    <<Row("m1", "tas")>>,
    <<Row("m1", "tas"), Row("m2", "tas")>> }

\* a link of an access method to a path
LinkTo(method, path) == <<method, path>>

StreamCases(path) ==
  { [VirtualZarr |-> <<>>, OPENDAP |-> <<>>],
    [VirtualZarr |-> <<LinkTo("VirtualZarr", path)>>,
     OPENDAP |-> <<LinkTo("OPENDAP", path)>>] }

GlobusCases == {<<>>, <<"e1">>}

\* the file information of the k-th path of the catalog, the paths dealt to
\* the rows of the catalog in turn
PlannerInfos(rows, k) ==
  { [key |-> FullKey(rows[((k - 1) % Len(rows)) + 1]), path |-> PathNames[k],
     HTTPServer |-> <<[scheme |-> "https", host |-> "hA"]>>,
     size |-> 20000000, checksum |-> GoodChecksum, checksum_type |-> "sha256",
     VirtualZarr |-> st.VirtualZarr, OPENDAP |-> st.OPENDAP,
     Globus |-> g, active_endpoints |-> {}] :
       st \in StreamCases(PathNames[k]), g \in GlobusCases }

InitPaths ==
  /\ local_cache = Caches(1)
  /\ esg_dataroot = DataRoots(1)
  /\ df \in DfCases
  /\ \E n \in 0..(IF df = <<>> THEN 0 ELSE MaxInfos) :
       /\ infos \in [1..n -> UNION {PlannerInfos(df, k) : k \in 1..n}]
       /\ \A k \in 1..n : infos[k].path = PathNames[k]
       /\ files \in [Locations(1, 1, {PathNames[k] : k \in 1..n}) -> {"absent", "good"}]
  /\ prefer_streaming \in BOOLEAN
  /\ prefer_globus \in BOOLEAN
  /\ break_on_error \in BOOLEAN
  /\ minimal_keys \in BOOLEAN
  /\ download_db = <<>>
  /\ dsd = EmptyDict
  /\ tasks = <<>>
  /\ tp_pc = "call"
  /\ p_i = 1
  /\ infos_exist = <<>>
  /\ infos_stream = <<>>
  /\ infos_globus = <<>>
  /\ infos_https = <<>>
  /\ active_endpoints = {}
  /\ ep_queries = <<>>
  /\ tp_warning = {}
  /\ tp_result = NoResult
  /\ PDIdle
  /\ SRIdle
  /\ ExtIdle

NextPaths ==
  TPCall \/ TPPartition \/ TPPartitioned \/ TPSubmit \/ TPDownload \/ TPMonitor \/ TPFinish

SpecPaths == InitPaths /\ [][NextPaths]_vars

\* ------------------------------------------------------------------------
\* to_path_dict called again on the same catalog with the same arguments
\* ------------------------------------------------------------------------
\* every file of the catalog is under some root
AllLocal(fs, infs, roots) ==
  \A k \in 1..Len(infs) : get_local_file(fs, infs[k].path, roots) # NoPath

\* the first call has returned: the second call begins, _get_file_info giving
\* the same file information again and partition_infos starting from ds = {}
TPSecondCall ==
  /\ tp_pc = "done"
  /\ tp_result.kind = "return"
  /\ tp_first = NoFirst
  /\ tp_first' = [called |-> TRUE, result |-> tp_result, warned |-> tp_warning # {},
                  rows |-> Len(download_db),
                  local |-> AllLocal(files, infos, esg_dataroot \o local_cache)]
  /\ infos' = [k \in 1..Len(infos) |-> [infos[k] EXCEPT !.active_endpoints = {}]]
  /\ dsd' = EmptyDict
  /\ tasks' = <<>>
  /\ tp_pc' = "call"
  /\ p_i' = 1
  /\ infos_exist' = <<>>
  /\ infos_stream' = <<>>
  /\ infos_globus' = <<>>
  /\ infos_https' = <<>>
  /\ active_endpoints' = {}
  /\ tp_warning' = {}
  /\ tp_result' = NoResult
  /\ task_status' = <<>>
  /\ polled' = <<>>
  /\ mon_error' = NoError
  /\ UNCHANGED <<local_cache, esg_dataroot, files, download_db, df, tpArgs, ep_queries>>
  /\ UNCHANGED <<dlVars, srVars, cfVars, grVars, wkVars, lateVars>>

NextPathsTwice == NextPaths \/ TPSecondCall

\* the catalog of one row, in which the files share their key
InitPathsTwice == InitPaths /\ Len(df) = 1

SpecPathsTwice == InitPathsTwice /\ [][NextPathsTwice]_vars


\* ------------------------------------------------------------------------
\* Strings as Python handles them: a string is a sequence of characters, a
\* facet value or a data node being one character of its own
\* ------------------------------------------------------------------------
\* the code point of a character
Code(c) ==
  CASE c = "0" -> 48 [] c = "1" -> 49 [] c = "2" -> 50 [] c = "3" -> 51
    [] c = "v" -> 118
    [] c = "-" -> 45 [] c = "B" -> 66 [] c = "a" -> 97 [] c = "b" -> 98
    [] c = "f" -> 102 [] c = "g" -> 103 [] c = "i" -> 105 [] c = "n" -> 110
    [] c = "p" -> 112 [] c = "r" -> 114 [] c = "s" -> 115

\* a < b for two strings
RECURSIVE StrLess(_, _)
StrLess(a, b) ==
  IF Len(a) = 0 THEN Len(b) > 0
  ELSE IF Len(b) = 0 THEN FALSE
  ELSE IF Code(a[1]) # Code(b[1]) THEN Code(a[1]) < Code(b[1])
  ELSE StrLess(Tail(a), Tail(b))

\* max(strings)
StrMax(strings) == CHOOSE x \in strings : \A y \in strings : ~StrLess(x, y)

\* s.split(sep)
RECURSIVE split(_, _)
split(str, sep) ==
  IF \A k \in 1..Len(str) : str[k] # sep THEN <<str>>
  ELSE LET at == CHOOSE k \in 1..Len(str) :
                   str[k] = sep /\ \A q \in 1..(k - 1) : str[q] # sep
       IN <<SubSeq(str, 1, at - 1)>> \o split(SubSeq(str, at + 1, Len(str)), sep)

\* sub in s
Contains(str, sub) ==
  \E k \in 1..(Len(str) - Len(sub) + 1) : SubSeq(str, k, k + Len(sub) - 1) = sub

\* ------------------------------------------------------------------------
\* What the indices hold, and the drivers
\* ------------------------------------------------------------------------
\* the identifier of a dataset at a data node: master id, version, node
MakeId(m, v, version, node) == <<m, ".", v, ".">> \o version \o <<"|", node>>

Rec(m, version, node) ==
  [source_id |-> <<m>>, variable_id |-> <<"tas">>, version |-> version,
   data_node |-> <<node>>, id |-> MakeId(m, "tas", version, node)]

Published ==
  { Rec("m1", <<"v", "2">>, "n1"),
    Rec("m1", <<"v", "3">>, "n1"),
    Rec("m1", <<"v", "3">>, "n2"),
    Rec("m1", <<"v", "2", "0">>, "n2"),
    Rec("m2", <<"v", "2", "0">>, "n1"),
    Rec("m2", <<"v", "2", "0">>, "n2") }

MaxRecs == 2

\* the frames an index can answer with: records of the federation, none twice
Frames == {f \in SeqsUpTo(Published, MaxRecs) : \A a, b \in 1..Len(f) : a # b => f[a] # f[b]}

Found(f) == [kind |-> "rows", rows |-> f]
Failure(exc) == [kind |-> exc, rows |-> <<>>]

\* SolrESGFIndex: rows, NoSearchResults when nothing is found, an exception
\* of requests when the transport fails
SolrAnswers ==
  {Found(f) : f \in Frames \ {<<>>}}
    \cup {Failure("NoSearchResults"), Failure("RequestException")}

\* GlobusESGFIndex: rows, none included, or the error of the Globus client
\* when the transport fails
GlobusAnswers == {Found(f) : f \in Frames} \cup {Failure("GlobusError")}

AnswersOf(kind) == IF kind = "solr" THEN SolrAnswers ELSE GlobusAnswers

\* _search, _from_tracking_ids: the call of the driver in its try block
Wrapped(answer) ==
  IF answer.kind = "rows"
  THEN [raised |-> None, df |-> answer.rows, warned |-> FALSE]
  ELSE IF answer.kind = "NoSearchResults"
  THEN [raised |-> None, df |-> <<>>, warned |-> FALSE]
  ELSE IF answer.kind = "RequestException"
  THEN [raised |-> None, df |-> <<>>, warned |-> TRUE]
  ELSE [raised |-> answer.kind, df |-> <<>>, warned |-> FALSE]

\* pd.concat(dfs)
RECURSIVE concat(_)
concat(dfs) == IF Len(dfs) = 0 THEN <<>> ELSE dfs[1] \o concat(Tail(dfs))

\* ------------------------------------------------------------------------
\* combine_results (base.py)
\* ------------------------------------------------------------------------
MasterOf(row) == [k \in 1..Len(master_id_facets) |-> row[master_id_facets[k]]]

\* df.drop_duplicates(subset=[variable_facet, "id"]): the first of each kept
drop_duplicates_kept(rows) == rows
drop_duplicates(rows) ==
  Pick(rows,
       {k \in 1..Len(rows) :
          \A q \in 1..(k - 1) :
            <<rows[q][variable_facet], rows[q].id>> # <<rows[k][variable_facet], rows[k].id>>},
       1)

\* the first row of each group of master-id facets, its id the list of the
\* ids of the group; the data_node column dropped
combine_results(rows) ==
  LET df0 == drop_duplicates(rows)
      first == {k \in 1..Len(df0) : \A q \in 1..(k - 1) : MasterOf(df0[q]) # MasterOf(df0[k])}
      group(k) == {q \in 1..Len(df0) : MasterOf(df0[q]) = MasterOf(df0[k])}
      merged == [k \in 1..Len(df0) |->
                   [source_id |-> df0[k].source_id, variable_id |-> df0[k].variable_id,
                    version |-> df0[k].version,
                    id |-> [j \in 1..Cardinality(group(k)) |-> Pick(df0, group(k), 1)[j].id]]]
  IN Pick(merged, first, 1)

\* ------------------------------------------------------------------------
\* search and from_tracking_ids (catalog.py)
\* ------------------------------------------------------------------------
Perms(n) == {order \in [1..n -> 1..n] : Range(order) = 1..n}

\* the thread pool over the indices: every index is asked, the frames come
\* back in the order the calls end, an exception of a call comes out of the
\* iteration
SRFanOut ==
  /\ sr_pc = "fanout"
  /\ \E arrival \in Perms(Len(indices)) :
       LET w == [k \in 1..Len(indices) |-> Wrapped(answers[k])]
       IN /\ sr_warned' = {k \in 1..Len(indices) : w[k].warned}
          /\ IF \E k \in 1..Len(indices) : w[k].raised # None
             THEN /\ sr_result' =
                       Raise(w[CHOOSE k \in 1..Len(indices) : w[k].raised # None].raised)
                  /\ sr_pc' = "done"
                  /\ UNCHANGED sr_dfs
             ELSE /\ sr_dfs' = [k \in 1..Len(indices) |-> w[arrival[k]].df]
                  /\ sr_pc' = "combine"
                  /\ UNCHANGED sr_result
  /\ UNCHANGED <<op, indices, answers>>
  /\ UNCHANGED <<worldVars, dlVars, tpVars, extVars>>

\* self.df = combine_results(dfs)
SRCombine ==
  /\ sr_pc = "combine"
  /\ IF Len(concat(sr_dfs)) = 0
     THEN /\ sr_result' = Raise("NoSearchResults")
          /\ sr_pc' = "done"
          /\ UNCHANGED df
     ELSE /\ df' = combine_results(concat(sr_dfs))
          /\ IF op = "search"
             THEN /\ sr_pc' = "latest"
                  /\ UNCHANGED sr_result
             ELSE /\ sr_pc' = "done"
                  /\ sr_result' = Return(EmptyDict)
  /\ UNCHANGED <<op, indices, answers, sr_dfs, sr_warned>>
  /\ UNCHANGED <<worldVars, dlVars, tpArgs, tpRun, extVars>>

\* x.split("|")[0].split(".")[-1]
VersionOf(x) ==
  LET pieces == split(split(x, "|")[1], ".") IN pieces[Len(pieces)]

\* the ids of the row that hold the greatest version string of the row
LatestOnly(row) ==
  LET latest == StrMax({VersionOf(row.id[k]) : k \in 1..Len(row.id)})
  IN [row EXCEPT !.id = Pick(row.id, {k \in 1..Len(row.id) : Contains(row.id[k], latest)}, 1)]

\* search only: the loop over the rows that keeps the latest version
SRLatest ==
  /\ sr_pc = "latest"
  /\ df' = [r \in 1..Len(df) |-> LatestOnly(df[r])]
  /\ sr_result' = Return(EmptyDict)
  /\ sr_pc' = "done"
  /\ UNCHANGED <<op, indices, answers, sr_dfs, sr_warned>>
  /\ UNCHANGED <<worldVars, dlVars, tpArgs, tpRun, extVars>>

IndexCases == {<<"solr">>, <<"globus">>, <<"solr", "solr">>, <<"solr", "globus">>}

InitSearch ==
  /\ op \in {"search", "from_tracking_ids"}
  /\ indices \in IndexCases
  /\ answers \in UNION {[1..n -> SolrAnswers \cup GlobusAnswers] : n \in {1, 2}}
  /\ Len(answers) = Len(indices)
  /\ \A k \in 1..Len(indices) : answers[k] \in AnswersOf(indices[k])
  /\ sr_pc = "fanout"
  /\ sr_dfs = <<>>
  /\ sr_warned = {}
  /\ sr_result = NoResult
  /\ local_cache = Caches(1)
  /\ esg_dataroot = DataRoots(1)
  /\ files = <<>>
  /\ download_db = <<>>
  /\ dsd = EmptyDict
  /\ PDIdle
  /\ TPIdle
  /\ ExtIdle

NextSearch == SRFanOut \/ SRCombine \/ SRLatest

SpecSearch == InitSearch /\ [][NextSearch]_vars

\* ------------------------------------------------------------------------
\* Config.set and its scope (config.py)
\* ------------------------------------------------------------------------
MaxScopes == 2

IndexTables == <<"globus_indices", "solr_indices", "stac_indices">>
IndexNames == UNION {DOMAIN defaults[IndexTables[k]] : k \in 1..Len(IndexTables)}

\* dict.clear() and dict.update(other)
clear(d) == [k \in {} |-> FALSE]
update_lost(d, other) == d
update(d, other) ==
  [k \in DOMAIN d \cup DOMAIN other |-> IF k \in DOMAIN other THEN other[k] ELSE d[k]]

\* the keys of the argument "indices" that the table knows
KnownTo(table, arg) == [k \in DOMAIN arg \cap DOMAIN table |-> arg[k]]
AllSet_kept(table, value) == table
AllSet(table, value) == [k \in DOMAIN table |-> value]

\* the assignments of Config.set, in their order
Applied(c, arg) ==
  LET c1 == IF arg.no_indices
            THEN [c EXCEPT !.globus_indices = AllSet(@, FALSE),
                           !.solr_indices = AllSet(@, FALSE),
                           !.stac_indices = AllSet(@, FALSE)]
            ELSE c
      c2 == [c1 EXCEPT !.globus_indices = update(@, KnownTo(@, arg.indices)),
                       !.solr_indices = update(@, KnownTo(@, arg.indices)),
                       !.stac_indices = update(@, KnownTo(@, arg.indices))]
      c3 == IF arg.all_indices
            THEN [c2 EXCEPT !.globus_indices = AllSet(@, TRUE),
                            !.solr_indices = AllSet(@, TRUE)]
            ELSE c2
  IN IF arg.break_on_error = None THEN c3
     ELSE [c3 EXCEPT !.break_on_error = (arg.break_on_error = "True")]

\* the arguments of a call of set: at most one index named, break_on_error
\* not given or turned off
SetArgs ==
  [ indices : {[k \in {} |-> FALSE]}
                \cup {[k \in {x} |-> b] : x \in IndexNames \cup {"unknown"}, b \in BOOLEAN},
    no_indices : BOOLEAN,
    all_indices : BOOLEAN,
    break_on_error : {None, "False"} ]

\* conf.set(...): the snapshot, the assignments; under "with" the scope
\* returned is entered
CFSet ==
  /\ \E arg \in SetArgs, entered \in BOOLEAN :
       LET temp == conf
       IN /\ conf' = Applied(conf, arg)
          /\ IF entered
             THEN /\ Len(cf_scopes) < MaxScopes
                  /\ cf_scopes' = Append(cf_scopes, temp)
             ELSE UNCHANGED cf_scopes
  /\ cf_last' = "set"
  /\ UNCHANGED set_arg
  /\ UNCHANGED <<worldVars, dlVars, tpVars, srVars, tp_first, moreVars>>

\* _unset after the yield: self.clear(); self.update(temp)
unset(c, temp) == update(clear(c), temp)

\* the body of the innermost scope ends normally
CFExit ==
  /\ cf_scopes # <<>>
  /\ conf' = unset(conf, cf_scopes[Len(cf_scopes)])
  /\ cf_scopes' = SubSeq(cf_scopes, 1, Len(cf_scopes) - 1)
  /\ cf_last' = "exit"
  /\ UNCHANGED set_arg
  /\ UNCHANGED <<worldVars, dlVars, tpVars, srVars, tp_first, moreVars>>

\* the body of the innermost scope raises: the exception is thrown into the
\* generator at its yield, which has no handler, and goes on to the caller
CFRaise ==
  /\ cf_scopes # <<>>
  /\ cf_scopes' = SubSeq(cf_scopes, 1, Len(cf_scopes) - 1)
  /\ cf_last' = "raise"
  /\ UNCHANGED set_arg
  /\ UNCHANGED conf
  /\ UNCHANGED <<worldVars, dlVars, tpVars, srVars, tp_first, moreVars>>

InitConfig ==
  /\ CFIdle
  /\ tp_first = NoFirst
  /\ MoreIdle
  /\ local_cache = Caches(1)
  /\ esg_dataroot = DataRoots(1)
  /\ files = <<>>
  /\ download_db = <<>>
  /\ dsd = EmptyDict
  /\ PDIdle
  /\ TPIdle
  /\ SRIdle

NextConfig == CFSet \/ CFExit \/ CFRaise

SpecConfig == InitConfig /\ [][NextConfig]_vars

\* ------------------------------------------------------------------------
\* Properties of the downloader
\* ------------------------------------------------------------------------
\* where download_and_verify writes: local_cache[0] / info["path"]
Target == Join(local_cache[1], info.path)

PDFinished == pd_pc \in {"returned", "loaded"}

\* the last call of download_and_verify returned without raising: the body
\* was written, hashed and found equal to the checksum
LastVerified == pd_last.resp # None /\ ~pd_last.raised

\* the step is one pass of the url loop (PDTry)
TryStep == /\ pd_pc = "loop"
           /\ url_i <= Len(info.HTTPServer)
           /\ <<url_i, pd_pc>>' # <<url_i, pd_pc>>

\* C7: as soon as one url of the FileInfo has been downloaded and verified,
\* parallel_download returns (key, local path) - no later url is tried - and
\* exactly one measurement has been recorded, whatever the number of local
\* cache roots.
C7_ReturnsAtFirstVerified ==
  LastVerified =>
    /\ PDFinished
    /\ pd_result = <<info.key, Target>>
    /\ Len(download_db) = pd_rows0 + 1

\* C8: a pass of the url loop in which the hash of the body differs from the
\* checksum leaves no file at the target, records no measurement, and moves on
\* to the next url.
C8_HashMismatchFallsThrough ==
  [][ ( /\ TryStep
        /\ pd_last'.resp \in {"bad", "good"}
        /\ info.checksum_type # None
        /\ get_file_hash(pd_last'.resp) # info.checksum )
      => ( /\ ~exists(files', Target)
           /\ download_db' = download_db
           /\ pd_pc' = "loop"
           /\ url_i' = url_i + 1
           /\ pd_result' = pd_result ) ]_vars

\* a hash mismatch has just been handled and another url is left to try
C8_Witness ==
  /\ pd_pc = "loop"
  /\ pd_last.resp = "bad"
  /\ pd_last.raised
  /\ info.checksum_type # None
  /\ ~exists(files, Target)
  /\ url_i = 2
  /\ url_i <= Len(info.HTTPServer)
  /\ Len(download_db) = pd_rows0

\* C9: when parallel_download ends without a verified download it returns
\* (None, None), no file is left at the download target, and the key of the
\* FileInfo is not entered in the dictionary of resolved paths.
C9_NothingLeftOnFailure ==
  (PDFinished /\ pd_result = <<NoKey, NoPath>>) =>
    /\ ~exists(files, Target)
    /\ (pd_pc = "loaded" => info.key \notin DOMAIN dsd)

\* C10: the urls are tried in ranked order: a url whose host has no recorded
\* rate before every url whose host has one, and of two hosts with recorded
\* rates the faster first.
RatesAtCall == get_download_rate_dataframe(SubSeq(download_db, 1, pd_rows0), MinimumSize)

C10_TriedInRankedOrder ==
  (pd_pc \in {"loop", "returned", "loaded"} /\ pd_last.resp # None) =>
    \A i, j \in 1..Len(info.HTTPServer) :
      (i < j /\ j <= url_i /\ (j < url_i \/ PDFinished)) =>
        LET hi == HostOf(info.HTTPServer[i])
            hj == HostOf(info.HTTPServer[j])
            known == DOMAIN RatesAtCall
        IN /\ ~(hi \in known /\ hj \notin known)
           /\ (hi \in known /\ hj \in known) =>
                 RatLeq(rate(RatesAtCall, hj), rate(RatesAtCall, hi))

\* ------------------------------------------------------------------------
\* Properties of partition_infos and to_path_dict
\* ------------------------------------------------------------------------
\* how many times the position occurs in the list
Occurrences(lst, x) == Cardinality({j \in 1..Len(lst) : lst[j] = x})

InClasses(x) ==
  Occurrences(infos_exist, x) + Occurrences(infos_stream, x)
    + Occurrences(infos_globus, x) + Occurrences(infos_https, x)

ClassSizes == Len(infos_exist) + Len(infos_stream) + Len(infos_globus) + Len(infos_https)

\* C1: whatever the FileInfos and the two preferences, every FileInfo that
\* partition_infos has handled is in exactly one of the four classes exist,
\* stream, globus and https, the class sizes sum to the number handled, and
\* when the function returns they sum to the number of FileInfos given (its
\* closing assertion never fails).
C1_ExactlyOneClass ==
  tp_pc \in {"partition", "submit", "download", "monitor", "finish", "done"} =>
    /\ \A k \in 1..(p_i - 1) : InClasses(k) = 1
    /\ ClassSizes = p_i - 1
    /\ (tp_pc \in {"submit", "download", "monitor", "finish"} => ClassSizes = Len(infos))
    /\ tp_result.exc # "AssertionError"

C1_Witness ==
  /\ tp_pc = "submit"
  /\ Len(infos) = 2
  /\ prefer_streaming /\ prefer_globus
  /\ Len(infos_stream) = 1
  /\ Len(infos_globus) + Len(infos_https) = 1

\* the roots searched for a local copy, in order
AllRoots == esg_dataroot \o local_cache
RootsHolding(path) == {k \in 1..Len(AllRoots) : files[Join(AllRoots[k], path)] # "absent"}
FirstRootHolding(path) ==
  AllRoots[CHOOSE k \in RootsHolding(path) : \A q \in RootsHolding(path) : k <= q]

\* the positions of the files put in a Globus task
InTasks == UNION {tasks[t].items : t \in 1..Len(tasks)}

TPEnded ==
  /\ tp_pc = "done"
  /\ tp_result.exc \notin {"ValueError", "AssertionError", "GlobusTransferError"}

\* C6: when keys of the catalog have no path, to_path_dict raises
\* MissingFileInformation if break_on_error is set; if it is not, it warns
\* with the missed keys and returns the dictionary of the resolved keys
\* without raising, with minimal keys and with full keys.
C6_MissedKeysReported ==
  (TPEnded /\ Missed(df, dsd) # {}) =>
     IF break_on_error
     THEN tp_result = Raise("MissingFileInformation")
     ELSE /\ tp_warning = Missed(df, dsd)
          /\ tp_result.kind = "return"
          /\ Cardinality(DOMAIN tp_result.value) = Cardinality(DfKeys(df) \cap DOMAIN dsd)

\* ------------------------------------------------------------------------
\* Properties of search and from_tracking_ids
\* ------------------------------------------------------------------------
\* the rows the indices answered with
Reported == UNION {Range(answers[k].rows) : k \in 1..Len(answers)}

\* C3: an index that raises NoSearchResults or fails in the transport adds
\* nothing and the others' rows are used: when some index answers with rows,
\* search and from_tracking_ids return, with a row for every master id
\* reported, whatever the other indices did.
C3_DriverFailureContained ==
  (sr_pc = "done" /\ Reported # {}) =>
     /\ sr_result.kind = "return"
     /\ {MasterOf(x) : x \in Reported} = {MasterOf(df[r]) : r \in 1..Len(df)}

\* combine_results has just returned
Combined ==
  \/ sr_pc = "latest"
  \/ sr_pc = "done" /\ op = "from_tracking_ids" /\ sr_result.kind = "return"

\* C4: after combine_results there is exactly one row for each master id
\* reported by the indices, and the id list of the row holds every distinct
\* identifier reported for that master id, each once.
C4_OneRowPerMasterId ==
  Combined =>
    /\ {MasterOf(df[r]) : r \in 1..Len(df)} = {MasterOf(x) : x \in Reported}
    /\ Len(df) = Cardinality({MasterOf(x) : x \in Reported})
    /\ \A r \in 1..Len(df) :
         /\ Range(df[r].id) = {x.id : x \in {y \in Reported : MasterOf(y) = MasterOf(df[r])}}
         /\ Len(df[r].id) = Cardinality(Range(df[r].id))

C4_Witness ==
  /\ Combined
  /\ Len(sr_dfs) = 2
  /\ Len(sr_dfs[1]) = 2 /\ Len(sr_dfs[2]) = 2
  /\ Range(sr_dfs[1]) \cap Range(sr_dfs[2]) # {}
  /\ Len(df) = 2
  /\ \E r \in 1..Len(df) : Len(df[r].id) = 2

\* the number a version stands for: "v20" is 20
RECURSIVE Digits(_)
Digits(str) ==
  IF Len(str) = 0 THEN 0
  ELSE 10 * Digits(SubSeq(str, 1, Len(str) - 1)) + (Code(str[Len(str)]) - Code("0"))
VersionNumber(version) == Digits(Tail(version))

\* C5: after search returns, the id list of every row holds exactly the
\* identifiers of the highest version reported for the row: all of that
\* version, none of a lower one.
C5_HighestVersionOnly ==
  (sr_pc = "done" /\ op = "search" /\ sr_result.kind = "return") =>
    \A r \in 1..Len(df) :
      LET mine == {x \in Reported : MasterOf(x) = MasterOf(df[r])}
          top == CHOOSE x \in mine :
                   \A y \in mine : VersionNumber(y.version) <= VersionNumber(x.version)
      IN Range(df[r].id) = {x.id : x \in {y \in mine : y.version = top.version}}

\* C11: a FileInfo with a null checksum and checksum type is still
\* downloaded: a url that delivers a complete body is a success, the file is
\* kept and the function returns its path for the key.
C11_NullChecksumDownloads ==
  (info.checksum_type = None /\ pd_last.resp \in {"good", "bad"}) =>
     /\ ~pd_last.raised
     /\ PDFinished
     /\ pd_result = <<info.key, Target>>
     /\ exists(files, Target)

\* ------------------------------------------------------------------------
\* Properties of Config
\* ------------------------------------------------------------------------
\* the innermost open scope is left by this step
LeavesScope == Len(cf_scopes') = Len(cf_scopes) - 1

\* C13: when a scope of conf.set(...) ends normally the configuration is the
\* snapshot taken when set was called: leaving an inner scope gives back the
\* configuration the inner set found, leaving the outer one the
\* configuration the outer set found.
C13_ScopeExitRestores ==
  [][ (LeavesScope /\ cf_last' = "exit") => conf' = cf_scopes[Len(cf_scopes)] ]_vars

C13_Witness ==
  /\ cf_last = "exit"
  /\ Len(cf_scopes) = 1
  /\ conf # cf_scopes[1]
  /\ conf # defaults
  /\ cf_scopes[1] = defaults

\* C14: when the body of a scope of conf.set(...) raises, the configuration
\* is the snapshot taken at the set call when the exception reaches the
\* caller.
C14_ScopeRaiseRestores ==
  [][ (LeavesScope /\ cf_last' = "raise") => conf' = cf_scopes[Len(cf_scopes)] ]_vars

\* ------------------------------------------------------------------------
\* Properties of a second call of to_path_dict
\* ------------------------------------------------------------------------
\* the paths of a returned dictionary, as sets
PathSets(d) == [k \in DOMAIN d |-> Range(d[k])]

\* the second call has ended
SecondEnded == tp_first.called /\ tp_pc = "done"

\* the second call returned what the first did, found every file locally and
\* downloaded nothing
SameAsFirst ==
  /\ tp_result.kind = "return"
  /\ PathSets(tp_result.value) = PathSets(tp_first.result.value)
  /\ Len(infos_exist) = Len(infos)
  /\ infos_https = <<>>
  /\ Len(download_db) = tp_first.rows

\* C12 as stated: after a first call that succeeded (it returned, with no
\* key missed), a second call on the unchanged catalog returns the same
\* paths under the same keys, with every FileInfo in the class exist, no
\* download and no new measurement.
C12_SecondCallSame == (SecondEnded /\ ~tp_first.warned) => SameAsFirst

\* C12 amended: the same, when the first call left every file of the catalog
\* under a local root.
C12_SecondCallSameWhenLocal == (SecondEnded /\ tp_first.local) => SameAsFirst

C12_Witness ==
  /\ SecondEnded
  /\ tp_first.local
  /\ Len(infos) = 2
  /\ tp_first.rows = 1
  /\ tp_result.kind = "return"
  /\ DOMAIN tp_result.value # {}

\* ------------------------------------------------------------------------
\* Model groups of a catalog (catalog.py, projects.py)
\* ------------------------------------------------------------------------
MaxCat == 3

\* project.grid_facet(): CMIP6 has "grid_label", CMIP5 and CMIP3 return None
Projects == {"CMIP6", "CMIP5"}
grid_facet(proj) == IF proj = "CMIP6" THEN "grid_label" ELSE None
NoGrid == <<>>

\* str.lower() of a model name, character by character
lower(str) == [k \in 1..Len(str) |-> IF str[k] = "B" THEN "b" ELSE str[k]]

IsDigit(c) == c \in {"0", "1", "2", "3"}

\* the length of the longest prefix of str made of digits (d) or of
\* characters that are no digits (~d)
SpanLen(str, d) ==
  CHOOSE n \in 0..Len(str) :
    /\ \A k \in 1..n : IsDigit(str[k]) = d
    /\ (n = Len(str) \/ IsDigit(str[n + 1]) # d)

\* re.findall(r"\d+", sample), each integer with the text before it
RECURSIVE Tokens(_)
Tokens(str) ==
  IF Len(str) = 0 THEN <<>>
  ELSE LET a == SpanLen(str, FALSE)
           rest == SubSeq(str, a + 1, Len(str))
           b == SpanLen(rest, TRUE)
       IN IF b = 0 THEN <<>>
          ELSE <<[pre |-> SubSeq(str, 1, a), num |-> SubSeq(rest, 1, b)]>>
                 \o Tokens(SubSeq(rest, b + 1, Len(rest)))

\* _extract_int_pattern: the texts that stand before the integers of the
\* sample, each followed by (\d+) in the pattern; no match when an integer
\* has no text before it
Failed == <<"Failed to find the pattern">>
extract_int_pattern(sample) ==
  LET toks == Tokens(sample)
  IN IF \E k \in 1..Len(toks) : toks[k].pre = <<>> THEN Failed
     ELSE [k \in 1..Len(toks) |-> toks[k].pre]

\* Series.str.extract(int_pattern): the integers of the first place of the
\* variant where the pattern is found, NaN where it is not found
NaN == <<>>
IsSuffix(a, b) == Len(a) <= Len(b) /\ SubSeq(b, Len(b) - Len(a) + 1, Len(b)) = a
MatchAt(pat, toks, j) ==
  /\ j + Len(pat) - 1 <= Len(toks)
  /\ IsSuffix(pat[1], toks[j].pre)
  /\ \A k \in 2..Len(pat) : toks[j + k - 1].pre = pat[k]
number_first_digit(str) == Code(str[1]) - Code("0")
number(str) == Digits(str)
extract(pat, variant) ==
  LET toks == Tokens(variant)
      hits == {j \in 1..Len(toks) : MatchAt(pat, toks, j)}
  IN IF hits = {} THEN NaN
     ELSE LET j == CHOOSE h \in hits : \A g \in hits : h <= g
          IN [k \in 1..Len(pat) |-> number(toks[j + k - 1].num)]

\* a row of self.df: its index label and the facets that matter here
CatRow(i, m, v, g, var) ==
  [index |-> i, model |-> m, variant |-> v, grid |-> g, variable |-> var]

\* the order of two tuples of integers, and of two sort keys
RECURSIVE IntsLeq(_, _)
IntsLeq(a, b) ==
  IF Len(a) = 0 THEN TRUE
  ELSE IF Len(b) = 0 THEN FALSE
  ELSE IF a[1] # b[1] THEN a[1] < b[1]
  ELSE IntsLeq(Tail(a), Tail(b))

StrLeq(a, b) == a = b \/ StrLess(a, b)

\* sort_columns: lower, the integers of the variant, then the grid if any
SortKey(row, pat) == [lower |-> lower(row.model), ints |-> extract(pat, row.variant),
                      grid |-> row.grid]
SortKeyLeq(a, b) ==
  IF a.lower # b.lower THEN StrLess(a.lower, b.lower)
  ELSE IF a.ints # b.ints THEN IntsLeq(a.ints, b.ints)
  ELSE StrLeq(a.grid, b.grid)

\* DataFrame.sort_values(sort_columns): ascending, ties in the order of df
RECURSIVE sort_values(_, _)
sort_values(rows, pat) ==
  IF Len(rows) = 0 THEN <<>>
  ELSE LET prev == sort_values(SubSeq(rows, 1, Len(rows) - 1), pat)
           x == rows[Len(rows)]
           p == Cardinality({j \in 1..Len(prev) :
                               SortKeyLeq(SortKey(prev[j], pat), SortKey(x, pat))})
       IN SubSeq(prev, 1, p) \o <<x>> \o SubSeq(prev, p + 1, Len(prev))

\* group_columns of model_groups: model and variant, and the grid if any
GroupLabel(row) == <<row.model, row.variant, row.grid>>

\* groupby(group_columns, sort=False).count(): one entry for each label in
\* the order of its first row, with the number of its rows
RECURSIVE count_groups(_)
count_groups(rows) ==
  IF Len(rows) = 0 THEN <<>>
  ELSE LET prev == count_groups(SubSeq(rows, 1, Len(rows) - 1))
           lbl == GroupLabel(rows[Len(rows)])
       IN IF \E j \in 1..Len(prev) : prev[j].label = lbl
          THEN [j \in 1..Len(prev) |->
                  IF prev[j].label = lbl
                  THEN [prev[j] EXCEPT !.count = @ + 1] ELSE prev[j]]
          ELSE Append(prev, [label |-> lbl, count |-> 1])

\* model_groups
model_groups(rows) ==
  IF Len(rows) = 0 THEN Raise("IndexError")
  ELSE LET pat == extract_int_pattern(rows[1].variant)
       IN IF pat = Failed \/ pat = <<>> THEN Raise("ValueError")
          ELSE IF \E k \in 1..Len(rows) : extract(pat, rows[k].variant) = NaN
               THEN Raise("ValueError")
          ELSE Return(count_groups(sort_values(rows, pat)))

\* DataFrame.drop(labels): the rows whose index label is not among them
drop_nothing(rows, labels) == rows
drop(rows, labels) == SelectSeq(rows, LAMBDA r : r.index \notin labels)

\* names of remove_ensembles: the index names but the variant
PairOf(lbl) == <<lbl[1], lbl[3]>>
Pairs(groups) == {PairOf(groups[j].label) : j \in 1..Len(groups)}

\* grp.iloc[0][variant_facet]: the variant of the first group of the pair
FirstVariant(groups, pair) ==
  LET j == CHOOSE g \in 1..Len(groups) :
             /\ PairOf(groups[g].label) = pair
             /\ \A q \in 1..(g - 1) : PairOf(groups[q].label) # pair
  IN groups[j].label[2]

\* self.df.query(q).index: the rows of the pair with another variant
query(rows, pair, variant) ==
  {rows[k].index : k \in {j \in 1..Len(rows) :
      PairOf(GroupLabel(rows[j])) = pair /\ rows[j].variant # variant}}

\* the loop of remove_ensembles over the pairs
RECURSIVE drop_ensembles(_, _, _)
drop_ensembles(rows, groups, pairs) ==
  IF pairs = {} THEN rows
  ELSE LET pair == CHOOSE p \in pairs : TRUE
       IN drop_ensembles(drop(rows, query(rows, pair, FirstVariant(groups, pair))),
                         groups, pairs \ {pair})

remove_ensembles(rows) ==
  LET g == model_groups(rows)
  IN IF g.kind = "raise" THEN [result |-> g, df |-> rows]
     ELSE [result |-> Return(<<>>), df |-> drop_ensembles(rows, g.value, Pairs(g.value))]

\* the complete functions a caller passes
Completes == {"always", "never", "two_rows", "has_tas"}
complete(pred, grp) ==
  CASE pred = "always" -> TRUE
    [] pred = "never" -> FALSE
    [] pred = "two_rows" -> Len(grp) = 2
    [] pred = "has_tas" -> \E k \in 1..Len(grp) : grp[k].variable = "tas"

\* the group of a label in self.df.groupby(group)
GroupRows(rows, lbl) == SelectSeq(rows, LAMBDA r : GroupLabel(r) = lbl)
Labels(rows) == {GroupLabel(rows[k]) : k \in 1..Len(rows)}

\* the loop of remove_incomplete: grp is a group of the frame as it was when
\* the loop began
RECURSIVE drop_incomplete(_, _, _, _)
drop_incomplete(rows, rows0, pred, lbls) ==
  IF lbls = {} THEN rows
  ELSE LET lbl == CHOOSE l \in lbls : TRUE
           grp == GroupRows(rows0, lbl)
       IN drop_incomplete(IF complete(pred, grp) THEN rows
                          ELSE drop(rows, {grp[k].index : k \in 1..Len(grp)}),
                          rows0, pred, lbls \ {lbl})

\* remove_incomplete: grid_facet() of a project without grid returns None and
\* raises nothing, so None joins the group list and groupby fails on it
remove_incomplete(rows, proj, pred) ==
  IF grid_facet(proj) = None THEN [result |-> Raise("TypeError"), df |-> rows]
  ELSE [result |-> Return(<<>>), df |-> drop_incomplete(rows, rows, pred, Labels(rows))]

GRModelGroups ==
  /\ gr_last' = [op |-> "model_groups", complete |-> None, before |-> cat_df,
                 result |-> model_groups(cat_df)]
  /\ UNCHANGED <<project, cat_df>>
  /\ UNCHANGED <<worldVars, dlVars, tpVars, srVars, cfVars, tp_first, monVars, wkVars, lateVars>>

GRRemoveIncomplete ==
  \E pred \in Completes :
    LET out == remove_incomplete(cat_df, project, pred)
    IN /\ cat_df' = out.df
       /\ gr_last' = [op |-> "remove_incomplete", complete |-> pred, before |-> cat_df,
                      result |-> out.result]
       /\ UNCHANGED project
       /\ UNCHANGED <<worldVars, dlVars, tpVars, srVars, cfVars, tp_first, monVars, wkVars, lateVars>>

GRRemoveEnsembles ==
  LET out == remove_ensembles(cat_df)
  IN /\ cat_df' = out.df
     /\ gr_last' = [op |-> "remove_ensembles", complete |-> None, before |-> cat_df,
                    result |-> out.result]
     /\ UNCHANGED project
     /\ UNCHANGED <<worldVars, dlVars, tpVars, srVars, cfVars, tp_first, monVars, wkVars, lateVars>>

\* the datasets a search may have found: two models, three variants of one
\* form and, in CMIP6, one with a sub-experiment before it, two grids, two
\* variables
Variant(r, f) == <<"r">> \o r \o <<"i", "1", "p", "1">> \o f
VariantsOf(proj) ==
  LET f == IF proj = "CMIP6" THEN <<"f", "1">> ELSE <<>>
  IN [plain |-> <<Variant(<<"1">>, f), Variant(<<"2">>, f), Variant(<<"1", "0">>, f)>>,
      sub |-> IF proj = "CMIP6"
              THEN {<<"s", "1", "-">> \o Variant(<<"1">>, f)} ELSE {}]
GridsOf(proj) == IF proj = "CMIP6" THEN <<<<"g", "n">>, <<"g", "r">>>> ELSE <<NoGrid, NoGrid>>
Datasets(proj) ==
  LET v == VariantsOf(proj)
      g == GridsOf(proj)
  IN ({<<"B">>} \X Range(v.plain) \X {g[1]} \X {"tas", "pr"})
       \cup ({<<"B">>} \X v.sub \X {g[1]} \X {"tas"})
       \cup ({<<"B">>} \X {v.plain[2]} \X {g[2]} \X {"tas"})
       \cup ({<<"a">>} \X {v.plain[1], v.plain[3]} \X {g[1]} \X {"tas"})

\* self.df after a search: at least one row (base.py 211-213), distinct
\* datasets, index labels that differ (base.py 226)
Catalogs(proj) ==
  UNION {{[k \in 1..n |-> CatRow(k - 1, c[k][1], c[k][2], c[k][3], c[k][4])] :
            c \in {s \in [1..n -> Datasets(proj)] :
                     \A i, j \in 1..n : i # j => s[i] # s[j]}} : n \in 1..MaxCat}

InitGroups ==
  /\ project \in Projects
  /\ cat_df \in Catalogs(project)
  /\ gr_last = NoOp
  /\ local_cache = Caches(1)
  /\ esg_dataroot = DataRoots(1)
  /\ files = <<>>
  /\ download_db = <<>>
  /\ dsd = EmptyDict
  /\ PDIdle
  /\ TPIdle
  /\ SRIdle
  /\ CFIdle
  /\ tp_first = NoFirst
  /\ MonIdle
  /\ WKIdle
  /\ LateIdle

NextGroups == GRModelGroups \/ GRRemoveIncomplete \/ GRRemoveEnsembles

SpecGroups == InitGroups /\ [][NextGroups]_vars

\* ------------------------------------------------------------------------
\* Properties of the model groups
\* ------------------------------------------------------------------------
\* the integers written in a variant, left to right
IntsOf(variant) == [k \in 1..Len(Tokens(variant)) |-> Digits(Tokens(variant)[k].num)]
\* the texts that stand before them
FormOf(variant) == [k \in 1..Len(Tokens(variant)) |-> Tokens(variant)[k].pre]
SameForms(rows) == \A k \in 1..Len(rows) : FormOf(rows[k].variant) = FormOf(rows[1].variant)

ModelGridOf(row) == <<row.model, row.grid>>
VariantsIn(rows, pair) ==
  {rows[k].variant : k \in {j \in 1..Len(rows) : ModelGridOf(rows[j]) = pair}}

\* for each (model, grid) pair of the catalog as it was, one variant of the
\* pair with the smallest integers is the only one left, and the rows left
\* are all the rows of the variant left for their pair
OneSmallestVariantLeft(before, after) ==
  /\ \A k \in 1..Len(before) :
       LET pair == ModelGridOf(before[k])
           had == VariantsIn(before, pair)
           left == VariantsIn(after, pair)
       IN \E v \in had :
            /\ left = {v}
            /\ \A w \in had : IntsLeq(IntsOf(v), IntsOf(w))
            /\ (before[k] \in Range(after)) <=> (before[k].variant = v)
  /\ Range(after) \subseteq Range(before)

RemovedEnsembles == gr_last.op = "remove_ensembles"

SameGroup(r, q) == r.model = q.model /\ r.variant = q.variant /\ r.grid = q.grid
GroupIn(rows, r) == SelectSeq(rows, LAMBDA q : SameGroup(r, q))
RemovedIncomplete == gr_last.op = "remove_incomplete"

\* C16: on a project with a grid facet, remove_incomplete(complete) removes
\* exactly the rows of the model groups (model, variant, grid) for which
\* complete is false, the rows left keeping their order; with a complete
\* that is true for every group the catalog is unchanged.
C16_ExactlyIncompleteRemoved ==
  (RemovedIncomplete /\ grid_facet(project) # None) =>
     /\ gr_last.result.kind = "return"
     /\ cat_df = SelectSeq(gr_last.before,
                           LAMBDA r : complete(gr_last.complete, GroupIn(gr_last.before, r)))
     /\ (gr_last.complete = "always" => cat_df = gr_last.before)

\* a group of two rows is kept and a group of one row is removed
C16_Witness ==
  /\ RemovedIncomplete
  /\ grid_facet(project) # None
  /\ gr_last.complete = "two_rows"
  /\ Len(gr_last.before) = 3
  /\ Len(cat_df) = 2
  /\ SameGroup(cat_df[1], cat_df[2])

ModelVariantOf(row) == <<row.model, row.variant>>
RowsOf(rows, mv) == Cardinality({k \in 1..Len(rows) : ModelVariantOf(rows[k]) = mv})

\* C17: on a project without grid facet (CMIP5, CMIP3) and a catalog that has
\* rows, model_groups, remove_incomplete and remove_ensembles complete without
\* error and group by (model, variant) alone: model_groups counts the rows of
\* each (model, variant), remove_incomplete removes the rows of the (model,
\* variant) groups that are not complete.
C17_NoGridGroupsByModelVariant ==
  (grid_facet(project) = None /\ gr_last.op # None /\ gr_last.before # <<>>) =>
     /\ gr_last.result.kind = "return"
     /\ gr_last.op = "model_groups" =>
          LET g == gr_last.result.value
          IN /\ {<<g[j].label[1], g[j].label[2]>> : j \in 1..Len(g)}
                  = {ModelVariantOf(gr_last.before[k]) : k \in 1..Len(gr_last.before)}
             /\ \A j \in 1..Len(g) :
                  g[j].count = RowsOf(gr_last.before, <<g[j].label[1], g[j].label[2]>>)
     /\ gr_last.op = "remove_incomplete" =>
          cat_df = SelectSeq(gr_last.before,
                             LAMBDA r : complete(gr_last.complete,
                                                 SelectSeq(gr_last.before,
                                                    LAMBDA q : ModelVariantOf(q) = ModelVariantOf(r))))

\* ------------------------------------------------------------------------
\* partition_infos alone, some streaming links leading to a server that has
\* the file no more
\* ------------------------------------------------------------------------
\* a streaming link whose server answers 404
GoneLinkTo(method, path) == <<method, path, "gone">>

\* what the server of a streaming link answers to a HEAD request
head(link) == IF Len(link) = 3 THEN 404 ELSE 200

IsStreamLink(x) == x[1] \in {"VirtualZarr", "OPENDAP"}

StreamCasesGone(path) ==
  StreamCases(path) \cup
    { [VirtualZarr |-> <<>>, OPENDAP |-> <<GoneLinkTo("OPENDAP", path)>>] }

PartitionInfos(rows, k) ==
  { [key |-> FullKey(rows[((k - 1) % Len(rows)) + 1]), path |-> PathNames[k],
     HTTPServer |-> <<[scheme |-> "https", host |-> "hA"]>>,
     size |-> 20000000, checksum |-> GoodChecksum, checksum_type |-> "sha256",
     VirtualZarr |-> st.VirtualZarr, OPENDAP |-> st.OPENDAP,
     Globus |-> g, active_endpoints |-> {}] :
       st \in StreamCasesGone(PathNames[k]), g \in GlobusCases }

InitPartition ==
  /\ local_cache = Caches(1)
  /\ esg_dataroot = DataRoots(1)
  /\ df \in DfCases
  /\ \E n \in 0..(IF df = <<>> THEN 0 ELSE MaxInfos) :
       /\ infos \in [1..n -> UNION {PartitionInfos(df, k) : k \in 1..n}]
       /\ \A k \in 1..n : infos[k].path = PathNames[k]
       /\ files \in [Locations(1, 1, {PathNames[k] : k \in 1..n}) -> {"absent", "good"}]
  /\ prefer_streaming \in BOOLEAN
  /\ prefer_globus \in BOOLEAN
  /\ break_on_error = TRUE
  /\ minimal_keys = TRUE
  /\ download_db = <<>>
  /\ dsd = EmptyDict
  /\ tasks = <<>>
  /\ tp_pc = "call"
  /\ p_i = 1
  /\ infos_exist = <<>>
  /\ infos_stream = <<>>
  /\ infos_globus = <<>>
  /\ infos_https = <<>>
  /\ active_endpoints = {}
  /\ ep_queries = <<>>
  /\ tp_warning = {}
  /\ tp_result = NoResult
  /\ PDIdle
  /\ SRIdle
  /\ ExtIdle

NextPartition == TPCall \/ TPPartition \/ TPPartitioned

SpecPartition == InitPartition /\ [][NextPartition]_vars

\* ------------------------------------------------------------------------
\* Properties of the partition
\* ------------------------------------------------------------------------
\* C18: a FileInfo is classified stream, and its streaming URL recorded, only
\* if the server of the URL answered a HEAD request with 2xx: no URL that is
\* recorded leads to a server that answers otherwise.
C18_StreamOnlyAfterHeadOk ==
  \A key \in DOMAIN dsd : \A j \in 1..Len(dsd[key]) :
     IsStreamLink(dsd[key][j]) => head(dsd[key][j]) \in 200..299

\* the FileInfos of the class that have the key
WithKey(idxs, key) == {j \in 1..Len(idxs) : infos[idxs[j]].key = key}
Partitioned == tp_pc = "submit"
KeysOf(idxs) == {infos[idxs[j]].key : j \in 1..Len(idxs)}

\* C19: when partition_infos has returned, the path list of each key has one
\* entry for each FileInfo of the key classified exist or stream (a streaming
\* URL is added to the list, it does not replace it), and only the keys of
\* such FileInfos have a list.
C19_OneEntryPerExistOrStream ==
  Partitioned =>
    /\ DOMAIN dsd = KeysOf(infos_exist) \cup KeysOf(infos_stream)
    /\ \A key \in DOMAIN dsd :
         Len(dsd[key]) = Cardinality(WithKey(infos_exist, key))
                           + Cardinality(WithKey(infos_stream, key))

\* the endpoints a FileInfo of the class globus was given
OwnLive(k) == infos[k].active_endpoints

\* C20: a FileInfo is classified stream only when prefer_streaming is set and
\* it has a streaming link, and globus only when prefer_globus is set and one
\* of its own endpoints was found live; with both preferences off every
\* FileInfo whose file is not local is classified https and no path is
\* recorded for it.
C20_ClassesFollowPreferences ==
  tp_pc \in {"partition", "submit"} =>
    /\ \A j \in 1..Len(infos_stream) :
         /\ prefer_streaming
         /\ infos[infos_stream[j]].VirtualZarr \o infos[infos_stream[j]].OPENDAP # <<>>
    /\ \A j \in 1..Len(infos_globus) :
         LET k == infos_globus[j]
         IN /\ prefer_globus
            /\ OwnLive(k) # {}
            /\ OwnLive(k) \subseteq Range(infos[k].Globus) \cap active_endpoints
    /\ (~prefer_streaming /\ ~prefer_globus) =>
         /\ \A k \in 1..(p_i - 1) :
              get_local_file(files, infos[k].path, esg_dataroot \o local_cache) = NoPath
                => Occurrences(infos_https, k) = 1
         /\ \A key \in DOMAIN dsd :
              Len(dsd[key]) = Cardinality(WithKey(infos_exist, key))
         /\ DOMAIN dsd = KeysOf(infos_exist)

\* both preferences off: a file with a streaming link and a Globus endpoint is
\* classified https next to a local file of the same key, whose path is the
\* only one recorded
C20_Witness ==
  /\ Partitioned
  /\ ~prefer_streaming /\ ~prefer_globus
  /\ infos_exist = <<1>>
  /\ infos_https = <<2>>
  /\ infos[2].OPENDAP # <<>>
  /\ infos[2].Globus # <<>>
  /\ infos[1].key = infos[2].key
  /\ Len(dsd[infos[1].key]) = 1

\* ------------------------------------------------------------------------
\* Properties of from_tracking_ids and of the order of the rows
\* ------------------------------------------------------------------------
VersionsIn(row) == {VersionOf(row.id[k]) : k \in 1..Len(row.id)}

\* C21: after from_tracking_ids returns, the identifiers of every row are of
\* one version, the highest version reported for the row.
C21_TrackingIdsHighestVersionOnly ==
  (sr_pc = "done" /\ op = "from_tracking_ids" /\ sr_result.kind = "return") =>
    \A r \in 1..Len(df) :
      /\ Cardinality(VersionsIn(df[r])) = 1
      /\ \A x \in Reported :
           MasterOf(x) = MasterOf(df[r]) =>
             \A v \in VersionsIn(df[r]) : VersionNumber(x.version) <= VersionNumber(v)

\* the frames of the indices in the order of the indices
InIndexOrder == [k \in 1..Len(indices) |-> Wrapped(answers[k]).df]

\* what the operation makes of the frames taken in that order
Reconciled(dfs, operation) ==
  LET c == combine_results(concat(dfs))
  IN IF operation = "search" THEN [r \in 1..Len(c) |-> LatestOnly(c[r])] ELSE c

\* the order of the values of source_id
SourceRank(row) == IF row.source_id = <<"m1">> THEN 1 ELSE 2

\* C22: when search or from_tracking_ids returns, the rows are in the order
\* of their master-id facets, and the rows, their order and their id lists
\* are what they are when the calls of the drivers end in the order of the
\* indices: the order in which they end changes nothing.
C22_RowsSameForEveryArrival ==
  (sr_pc = "done" /\ sr_result.kind = "return") =>
    /\ df = Reconciled(InIndexOrder, op)
    /\ \A r, s \in 1..Len(df) : r < s => SourceRank(df[r]) <= SourceRank(df[s])

\* ------------------------------------------------------------------------
\* to_path_dict with Globus preferred: files that are local nowhere, held by
\* up to two endpoints
\* ------------------------------------------------------------------------
MaxBulk == 3

GlobusCasesTwo == {<<>>, <<"e1">>, <<"e2">>, <<"e1", "e2">>}

TransferInfos(rows, k) ==
  { [key |-> FullKey(rows[((k - 1) % Len(rows)) + 1]), path |-> PathNames[k],
     HTTPServer |-> <<[scheme |-> "https", host |-> "hA"]>>,
     size |-> 20000000, checksum |-> GoodChecksum, checksum_type |-> "sha256",
     VirtualZarr |-> <<>>, OPENDAP |-> <<>>,
     Globus |-> g, active_endpoints |-> {}] : g \in GlobusCasesTwo }

InitTransfer ==
  /\ local_cache = Caches(1)
  /\ esg_dataroot = DataRoots(1)
  /\ df \in DfCases \ {<<>>}
  /\ \E n \in 1..MaxBulk :
       /\ infos \in [1..n -> UNION {TransferInfos(df, k) : k \in 1..n}]
       /\ \A k \in 1..n : infos[k].path = PathNames[k]
       /\ files = [loc \in Locations(1, 1, {PathNames[k] : k \in 1..n}) |-> "absent"]
  /\ prefer_streaming = FALSE
  /\ prefer_globus = TRUE
  /\ break_on_error = TRUE
  /\ minimal_keys = TRUE
  /\ download_db = <<>>
  /\ dsd = EmptyDict
  /\ tasks = <<>>
  /\ tp_pc = "call"
  /\ p_i = 1
  /\ infos_exist = <<>>
  /\ infos_stream = <<>>
  /\ infos_globus = <<>>
  /\ infos_https = <<>>
  /\ active_endpoints = {}
  /\ ep_queries = <<>>
  /\ tp_warning = {}
  /\ tp_result = NoResult
  /\ PDIdle
  /\ SRIdle
  /\ ExtIdle

SpecTransfer == InitTransfer /\ [][NextPaths]_vars

\* ------------------------------------------------------------------------
\* Properties of the Globus transfers
\* ------------------------------------------------------------------------
Submitted == tp_pc \in {"download", "monitor"} /\ prefer_globus /\ infos_globus # <<>>
TasksWith(i) == {t \in 1..Len(tasks) : i \in tasks[t].items}
CanServe(e) ==
  Cardinality({j \in 1..Len(infos_globus) : e \in infos[infos_globus[j]].active_endpoints})

\* C23: when create_globus_transfer has returned, every bulk FileInfo is an
\* item of exactly one task, the source of the task is one of the live
\* endpoints of the FileInfo, the tasks follow the decreasing number of files
\* their sources can serve, and no task is without items.
OneTaskPerBulkFile ==
  /\ \A j \in 1..Len(infos_globus) :
       LET i == infos_globus[j]
       IN /\ Cardinality(TasksWith(i)) = 1
          /\ \A t \in TasksWith(i) : tasks[t].source \in infos[i].active_endpoints
  /\ \A t \in 1..Len(tasks) :
       /\ tasks[t].items # {}
       /\ tasks[t].items \subseteq Range(infos_globus)
  /\ \A a, b \in 1..Len(tasks) :
       a < b => CanServe(tasks[a].source) >= CanServe(tasks[b].source)

Steady == \A e \in active_endpoints : Occurrences(ep_queries, e) = 1

Monitoring == tp_pc = "monitor" /\ prefer_globus /\ infos_globus # <<>>

\* C24: monitor_globus_transfer returns normally only when every submitted
\* task is SUCCEEDED, and a task that leaves ACTIVE with another status makes
\* it raise GlobusTransferError carrying the response of that task.
C24_MonitorReturnsOnlyOnSuccess ==
  [][Monitoring =>
       /\ tp_pc' = "finish" =>
            /\ mon_error' = NoError
            /\ \A k \in 1..Len(tasks) :
                 task_status'[k] = "SUCCEEDED" /\ polled'[k] = "SUCCEEDED"
       /\ \A k \in 1..Len(tasks) :
            polled'[k] \notin {Unpolled, "SUCCEEDED"} =>
              /\ tp_pc' = "done"
              /\ tp_result' = Raise("GlobusTransferError")
              /\ mon_error' = [task |-> k, status |-> task_status'[k]]]_vars

\* two tasks, the first SUCCEEDED and the second paused: the error carries
\* the response of the second
C24_Witness ==
  /\ tp_pc = "done"
  /\ Len(tasks) = 2
  /\ polled = <<"SUCCEEDED", "INACTIVE">>
  /\ tp_result = Raise("GlobusTransferError")
  /\ mon_error = [task |-> 2, status |-> "INACTIVE"]

\* ------------------------------------------------------------------------
\* Slow downloads
\* ------------------------------------------------------------------------
\* conf["slow_download_threshold"] as the test of slow downloads sets it, in
\* Mb per second
slow_download_threshold == 100

\* "rate = content_length * 1e-6 / transfer_time" of a logged download is
\* below the threshold
RateBelow(row, threshold) == row.transfer_size < threshold * row.transfer_time

\* the downloads that this call of parallel_download completed and logged
LoggedByCall == {k \in 1..Len(download_db) : k > pd_rows0}

\* C25: with slow_download_threshold > 0, a download whose measured rate is
\* below the threshold is aborted with StalledDownload, its partial file is
\* deleted and the next url is tried; so no download of the call completes,
\* is logged and is returned at a rate below the threshold.
C25_SlowDownloadAborted ==
  (pd_pc \in {"loop", "returned", "loaded"} /\ slow_download_threshold > 0) =>
    \A k \in LoggedByCall :
      RateBelow(download_db[k], slow_download_threshold) =>
        /\ pd_last.raised
        /\ ~exists(files, Join(local_cache[1], info.path))

\* ------------------------------------------------------------------------
\* Config.set and the index tables
\* ------------------------------------------------------------------------
\* the step is conf.set(**arg)
IsSetOf(arg) == cf_last' = "set" /\ conf' = Applied(conf, arg)

\* the indices that a configuration enables, over the given tables
EnabledIn(c, tables) == {k \in IndexNames : \E t \in tables : k \in DOMAIN c[t] /\ c[t][k]}
AllTables == {"globus_indices", "solr_indices", "stac_indices"}

\* C26: a set with no_indices or all_indices, naming no STAC index, changes
\* only the globus and solr tables: the STAC table is as it was.
C26_StacUntouchedByNoAll ==
  [][\A arg \in SetArgs :
       (/\ IsSetOf(arg)
        /\ arg.no_indices \/ arg.all_indices
        /\ DOMAIN arg.indices \cap DOMAIN conf.stac_indices = {})
       => conf'.stac_indices = conf.stac_indices]_vars

\* conf.set(...) called plainly: the assignments are made and the scope that
\* is returned is never entered
CFSetPlain ==
  /\ \E arg \in SetArgs :
       /\ conf' = Applied(conf, arg)
       /\ set_arg' = arg
  /\ cf_last' = "set"
  /\ UNCHANGED cf_scopes
  /\ UNCHANGED <<worldVars, dlVars, tpVars, srVars, tp_first, moreVars>>

NextIndices == CFSetPlain

SpecIndices == InitConfig /\ [][NextIndices]_vars

\* C27: after set(no_indices=True) no index of the three tables is enabled;
\* after set(no_indices=True, indices={k: True}) exactly k is; after
\* set(all_indices=True) every globus and solr index is. This is so at the
\* call, without the scope returned being entered.
C27_NoAllIndices ==
  (cf_last = "set" /\ cf_scopes = <<>>) =>
    /\ (set_arg.no_indices /\ ~set_arg.all_indices /\ DOMAIN set_arg.indices = {})
         => EnabledIn(conf, AllTables) = {}
    /\ \A k \in IndexNames :
         (/\ set_arg.no_indices /\ ~set_arg.all_indices
          /\ DOMAIN set_arg.indices = {k} /\ set_arg.indices[k])
           => EnabledIn(conf, AllTables) = {k}
    /\ set_arg.all_indices =>
         \A t \in {"globus_indices", "solr_indices"} :
           \A k \in DOMAIN conf[t] : conf[t][k]

\* set(no_indices=True, indices={"anl-dev": True}) called plainly has left
\* that index alone enabled
C27_Witness ==
  /\ cf_last = "set"
  /\ cf_scopes = <<>>
  /\ set_arg.no_indices /\ ~set_arg.all_indices
  /\ DOMAIN set_arg.indices = {"anl-dev"} /\ set_arg.indices["anl-dev"]
  /\ EnabledIn(conf, AllTables) = {"anl-dev"}

\* ------------------------------------------------------------------------
\* What to_path_dict leaves running
\* ------------------------------------------------------------------------
\* C28: to_path_dict returns or raises only after every submitted task has
\* left ACTIVE: no submitted task is left unpolled and still ACTIVE.
C28_NothingLeftRunning ==
  tp_pc = "done" =>
    \A k \in 1..Len(tasks) : task_status[k] # "ACTIVE"

\* ------------------------------------------------------------------------
\* The thread pool of to_path_dict and the downloads table
\* ------------------------------------------------------------------------
MaxThreads == 2
MaxIndexInfos == 3

\* what the indices report about files: a path and one https link, the first
\* file on one host and the others on another
IndexInfos ==
  {[path |-> PathNames[k], key |-> <<"k1">>, size |-> 20000000,
    checksum |-> GoodChecksum, checksum_type |-> "sha256",
    HTTPServer |-> <<[scheme |-> "https", host |-> IF k = 1 THEN "hA" ELSE "hB"]>>] :
     k \in 1..MaxIndexInfos}

\* "merged_info[path]": one FileInfo per path, the lists of a path joined and
\* the other values taken from the first report
RECURSIVE merged_info(_, _)
merged_info(merged, index_infos) ==
  IF index_infos = <<>> THEN merged
  ELSE LET x == Head(index_infos)
           hit == {k \in 1..Len(merged) : merged[k].path = x.path}
       IN IF hit = {}
          THEN merged_info(Append(merged, x), Tail(index_infos))
          ELSE merged_info([k \in 1..Len(merged) |->
                              IF k \in hit
                              THEN [merged[k] EXCEPT !.HTTPServer = @ \o x.HTTPServer]
                              ELSE merged[k]],
                           Tail(index_infos))

\* ThreadPool(min(conf["num_threads"], len(infos["https"])))
ThreadPool_all(threads, n) == n
ThreadPool(threads, n) == IF threads < n THEN threads ELSE n

\* create_download_database, called by ESGFCatalog.__init__ when the file is
\* missing: an existing file is returned from at once, a new one has the
\* table and no rows
create_download_database(is_there, db) == IF is_there THEN db ELSE <<>>

Idle == [i |-> 0, writing |-> FALSE]
WorkerFile(w) == Join(local_cache[1], infos[pool[w].i].path)
R0 == [host |-> "hA", transfer_time |-> 2, transfer_size |-> 20]

\* ESGFCatalog(): the downloads table is created if its file is missing
WCreate ==
  /\ download_db' = create_download_database(db_file, download_db)
  /\ db_file' = TRUE
  /\ UNCHANGED <<local_cache, esg_dataroot, files, dsd>>
  /\ UNCHANGED <<num_threads, pool, w_next>>
  /\ UNCHANGED <<dlVars, tpVars, srVars, cfVars, tp_first, grVars, monVars, lateVars>>

\* to_path_dict reaches the pool
WStart ==
  /\ db_file
  /\ w_next = 0
  /\ pool' = [w \in 1..ThreadPool(num_threads, Len(infos_https)) |-> Idle]
  /\ w_next' = 1
  /\ UNCHANGED <<worldVars, num_threads, db_file>>
  /\ UNCHANGED <<dlVars, tpVars, srVars, cfVars, tp_first, grVars, monVars, lateVars>>

\* a free worker is handed the next FileInfo; parallel_download finds no
\* local copy and reads the rates from the table
WTake ==
  /\ w_next \in 1..Len(infos_https)
  /\ \E w \in DOMAIN pool :
       /\ pool[w] = Idle
       /\ pool' = [pool EXCEPT ![w] = [i |-> infos_https[w_next], writing |-> FALSE]]
  /\ w_next' = w_next + 1
  /\ UNCHANGED <<worldVars, num_threads, db_file>>
  /\ UNCHANGED <<dlVars, tpVars, srVars, cfVars, tp_first, grVars, monVars, lateVars>>

\* requests.get raises: nothing is written and the worker is free again
WRefused ==
  /\ \E w \in DOMAIN pool :
       /\ pool[w].i # 0 /\ ~pool[w].writing
       /\ pool' = [pool EXCEPT ![w] = Idle]
  /\ UNCHANGED <<worldVars, num_threads, w_next, db_file>>
  /\ UNCHANGED <<dlVars, tpVars, srVars, cfVars, tp_first, grVars, monVars, lateVars>>

\* open(local_file, "wb"): the worker begins to write its file
WOpen ==
  /\ \E w \in DOMAIN pool :
       /\ pool[w].i # 0 /\ ~pool[w].writing
       /\ files' = write(files, WorkerFile(w), "partial")
       /\ pool' = [pool EXCEPT ![w].writing = TRUE]
  /\ UNCHANGED <<local_cache, esg_dataroot, download_db, dsd>>
  /\ UNCHANGED <<num_threads, w_next, db_file>>
  /\ UNCHANGED <<dlVars, tpVars, srVars, cfVars, tp_first, grVars, monVars, lateVars>>

\* the rest of download_and_verify for the worker; the INSERT is lost when
\* the table stays locked by another connection past the timeout
WFinish ==
  /\ \E w \in DOMAIN pool, resp \in Responses \ {"refused"}, locked \in BOOLEAN :
       /\ pool[w].writing
       /\ LET inf == infos[pool[w].i]
              r == download_and_verify(inf.HTTPServer[1], WorkerFile(w), inf.checksum,
                                       inf.checksum_type, inf.size, resp, 1,
                                       files, download_db)
          IN /\ files' = r.files
             /\ download_db' = IF locked THEN download_db ELSE r.db
       /\ pool' = [pool EXCEPT ![w] = Idle]
  /\ UNCHANGED <<local_cache, esg_dataroot, dsd>>
  /\ UNCHANGED <<num_threads, w_next, db_file>>
  /\ UNCHANGED <<dlVars, tpVars, srVars, cfVars, tp_first, grVars, monVars, lateVars>>

InitWorkers ==
  /\ local_cache = Caches(1)
  /\ esg_dataroot = <<>>
  /\ \E n \in 1..MaxIndexInfos :
       \E index_infos \in [1..n -> IndexInfos] :
         /\ infos = merged_info(<<>>, index_infos)
         /\ infos_https = [k \in 1..Len(infos) |-> k]
         /\ files = [f \in Locations(0, 1, {infos[k].path : k \in 1..Len(infos)}) |-> "absent"]
  /\ db_file \in BOOLEAN
  /\ download_db \in (IF db_file THEN {<<>>, <<R0>>} ELSE {<<>>})
  /\ num_threads \in 1..MaxThreads
  /\ pool = <<>>
  /\ w_next = 0
  /\ dsd = EmptyDict
  /\ df = <<>>
  /\ prefer_streaming = FALSE
  /\ prefer_globus = FALSE
  /\ break_on_error = TRUE
  /\ minimal_keys = TRUE
  /\ tasks = <<>>
  /\ tp_pc = "download"
  /\ p_i = Len(infos) + 1
  /\ infos_exist = <<>>
  /\ infos_stream = <<>>
  /\ infos_globus = <<>>
  /\ active_endpoints = {}
  /\ ep_queries = <<>>
  /\ tp_warning = {}
  /\ tp_result = NoResult
  /\ PDIdle
  /\ SRIdle
  /\ CFIdle
  /\ tp_first = NoFirst
  /\ GRIdle
  /\ MonIdle
  /\ LateIdle

NextWorkers == WCreate \/ WStart \/ WTake \/ WRefused \/ WOpen \/ WFinish

SpecWorkers == InitWorkers /\ [][NextWorkers]_vars

\* the workers that hold a FileInfo
Running == {w \in DOMAIN pool : pool[w].i # 0}

\* C29: at most min(num_threads, number of https FileInfos) workers run at a
\* time, and no two of them write the same local file: the FileInfos handed
\* out have pairwise distinct paths and each is handed to one worker.
C29_WorkersBoundedAndApart ==
  /\ Cardinality(Running) <= num_threads
  /\ Cardinality(Running) <= Len(infos_https)
  /\ \A a, b \in 1..Len(infos_https) :
       a # b => infos[infos_https[a]].path # infos[infos_https[b]].path
  /\ \A v, w \in Running : v # w => pool[v].i # pool[w].i /\ WorkerFile(v) # WorkerFile(w)
  /\ \A w \in Running : pool[w].i \in {infos_https[k] : k \in 1..(w_next - 1)}

\* two workers write two files at once, a third file waits for a free worker
C29_Witness ==
  /\ Cardinality(Running) = 2
  /\ \A w \in Running : pool[w].writing /\ files[WorkerFile(w)] = "partial"
  /\ w_next = 3
  /\ Len(infos_https) = 3

\* C30: every operation on the downloads table leaves its rows as they are
\* or appends one row; the rows there are never changed or deleted, also
\* with several workers logging, and creating the table when its file exists
\* keeps the rows.
C30_StoreAppendOnly ==
  [][/\ Len(download_db') \in {Len(download_db), Len(download_db) + 1}
     /\ SubSeq(download_db', 1, Len(download_db)) = download_db
     /\ db_file => db_file']_vars

\* two workers have logged their downloads after the row that was there, a
\* third download is being written
C30_Witness ==
  /\ Len(download_db) = 3
  /\ download_db[1] = R0
  /\ Cardinality(DOMAIN pool) = 2
  /\ \E w \in Running : pool[w].writing

\* ------------------------------------------------------------------------
\* The liveness questions of partition_infos
\* ------------------------------------------------------------------------
\* C31: during one call of partition_infos each endpoint is asked about at
\* most once, however many files name it and whatever the answer was.
C31_EndpointAskedOnce ==
  \A e \in Endpoints : Occurrences(ep_queries, e) <= 1

\* ------------------------------------------------------------------------
\* esg_search (core/solr.py)
\* ------------------------------------------------------------------------
MaxFound == 3
MaxPage == 2

\* the documents start+1 .. start+n of the result set
Docs(start, n) == [k \in 1..n |-> start + k]

\* what the index may answer to a request at the given offset. A stable
\* backend reports the size of its one result set and fills the page; any
\* other reports a size of its choice and as many documents as it likes, up
\* to the page and the size it reports
Answers(kind, n_found, per_page, at) ==
  IF kind = "stable"
  THEN LET left == IF at < n_found THEN n_found - at ELSE 0
       IN {[numFound |-> n_found, start |-> at,
            docs |-> Docs(at, IF left < per_page THEN left ELSE per_page)]}
  ELSE {[numFound |-> nf, start |-> at, docs |-> Docs(at, n)] :
          nf \in 0..MaxFound,
          n \in {m \in 0..per_page : at + m <= MaxFound}}

\* one pass of "while (offset + limit) < total": the request, the yield and
\* the four assignments
ESRequest ==
  /\ es_pc = "loop"
  /\ offset + limit < total
  /\ \E response \in Answers(backend, num_found, page, search_offset) :
       /\ yielded' = yielded \o response.docs
       /\ limit' = Len(response.docs)
       /\ total' = response.numFound
       /\ offset' = response.start
       /\ search_offset' = response.start + Len(response.docs)
  /\ UNCHANGED <<backend, num_found, page, es_pc>>
  /\ UNCHANGED <<worldVars, dlVars, tpVars, srVars, cfVars, tp_first, grVars, monVars, wkVars, rtVars, exVars, slVars, ctVars>>

\* the condition of the while is false: the generator is exhausted
ESDone ==
  /\ es_pc = "loop"
  /\ ~(offset + limit < total)
  /\ es_pc' = "done"
  /\ UNCHANGED <<backend, num_found, page, search_offset, offset, limit, total, yielded>>
  /\ UNCHANGED <<worldVars, dlVars, tpVars, srVars, cfVars, tp_first, grVars, monVars, wkVars, rtVars, exVars, slVars, ctVars>>

InitPages ==
  /\ backend \in {"stable", "any"}
  /\ num_found \in 0..MaxFound
  /\ page \in 1..MaxPage
  /\ search_offset = 0
  /\ offset = 0
  /\ limit = DefaultLimit
  /\ total = offset + limit + 1
  /\ es_pc = "loop"
  /\ yielded = <<>>
  /\ local_cache = Caches(1)
  /\ esg_dataroot = DataRoots(1)
  /\ files = <<>>
  /\ download_db = <<>>
  /\ dsd = EmptyDict
  /\ PDIdle
  /\ TPIdle
  /\ SRIdle
  /\ CFIdle
  /\ tp_first = NoFirst
  /\ GRIdle
  /\ MonIdle
  /\ WKIdle
  /\ RTIdle
  /\ EXIdle
  /\ SLIdle
  /\ CTIdle

NextPages == ESRequest \/ ESDone

\* the generator is driven to its end by the loop that consumes it
SpecPages == InitPages /\ [][NextPages]_vars /\ WF_vars(NextPages)

\* C32: esg_search terminates whatever the index answers, as long as every
\* numFound is finite.
C32_SearchTerminates == <>(es_pc = "done")

\* with a stable backend the documents of the result set are yielded once
\* each, in the order of their offsets
StableYieldsAll ==
  (es_pc = "done" /\ backend = "stable") => yielded = Docs(0, num_found)

\* with a stable backend the search ends
StableTerminates == (backend = "stable") => <>(es_pc = "done")

\* ------------------------------------------------------------------------
\* get_download_rate_dataframe with a time window (database.py)
\* ------------------------------------------------------------------------
MaxStamped == 2

\* the rows of the table with the age of their timestamp, in days
Ages == {0, 1, 7}
StampedRows == [host : Hosts, transfer_time : Times, transfer_size : {10, 20}, age : Ages]

\* "timestamp > datetime('now', '-1 {history}', 'localtime')", in days
Window(h) == CASE h = "day" -> 1 [] h = "week" -> 7 [] h = "month" -> 30
InHistory(row, h) == h = None \/ row.age < Window(h)

\* the rows of the list that pass the test, in their order
RECURSIVE Where(_, _)
Where(rows, h) ==
  IF rows = <<>> THEN <<>>
  ELSE (IF InHistory(Head(rows), h) THEN <<Head(rows)>> ELSE <<>>) \o Where(Tail(rows), h)

\* get_download_rate_dataframe(path, history, minimum_size): the two
\* conditions joined by AND
RTQuery ==
  /\ rt_pc = "call"
  /\ rate_df' = get_download_rate_dataframe(Where(rate_rows, history), MinimumSize)
  /\ rt_pc' = "done"
  /\ UNCHANGED <<rate_rows, history>>
  /\ UNCHANGED <<worldVars, dlVars, tpVars, srVars, cfVars, tp_first, grVars, monVars, wkVars, pgVars, exVars, slVars, ctVars>>

InitRates ==
  /\ rate_rows \in SeqsUpTo(StampedRows, MaxStamped)
  /\ history \in {None, "day", "week", "month"}
  /\ rate_df = <<>>
  /\ rt_pc = "call"
  /\ local_cache = Caches(1)
  /\ esg_dataroot = DataRoots(1)
  /\ files = <<>>
  /\ download_db = <<>>
  /\ dsd = EmptyDict
  /\ PDIdle
  /\ TPIdle
  /\ SRIdle
  /\ CFIdle
  /\ tp_first = NoFirst
  /\ GRIdle
  /\ MonIdle
  /\ WKIdle
  /\ PGIdle
  /\ EXIdle
  /\ SLIdle
  /\ CTIdle

NextRates == RTQuery

SpecRates == InitRates /\ [][NextRates]_vars

\* a measurement of the host that counts: large enough and inside the window
Counts(row, h) ==
  /\ row.host = h
  /\ row.transfer_size > MinimumSize
  /\ history # None => row.age < Window(history)

\* the sum of a column over the measurements of the host that count
RECURSIVE Total(_, _, _, _)
Total(rows, h, column, k) ==
  IF k > Len(rows) THEN 0
  ELSE (IF Counts(rows[k], h) THEN rows[k][column] ELSE 0) + Total(rows, h, column, k + 1)

MaxVars == 2
VariableNames == {"clw", "evspsbl", "tas"}

\* lists of distinct variables
VarLists == {l \in SeqsUpTo(VariableNames, MaxVars) : Cardinality(Range(l)) = Len(l)}

\* the record of the index document, and its copy for one variable
cmip5_record == [project |-> "CMIP5", id |-> "d1", variable |-> None]
WithVariable(record, var) == [record EXCEPT !.variable = var]

\* the lists that list(a_set) can give
ListsOf(S) == {l \in [1..Cardinality(S) -> S] : Range(l) = S}

\* expand_cmip5_record(search_vars, content_vars, record): the lists it can
\* return, one for each order of the intersection
expand_cmip5_record(searched, content, record) ==
  LET both == Range(searched) \cap Range(content)
      lists == IF both = {} THEN {content} ELSE ListsOf(both)
  IN {[k \in 1..Len(variables) |-> WithVariable(record, variables[k])] : variables \in lists}

EXExpand ==
  /\ ex_pc = "call"
  /\ records' \in expand_cmip5_record(search_vars, content_vars, cmip5_record)
  /\ ex_pc' = "done"
  /\ UNCHANGED <<search_vars, content_vars>>
  /\ UNCHANGED <<worldVars, dlVars, tpVars, srVars, cfVars, tp_first, grVars, monVars, wkVars, pgVars, rtVars, slVars, ctVars>>

InitExpand ==
  /\ search_vars \in VarLists
  /\ content_vars \in VarLists \ {<<>>}
  /\ records = <<>>
  /\ ex_pc = "call"
  /\ local_cache = Caches(1)
  /\ esg_dataroot = DataRoots(1)
  /\ files = <<>>
  /\ download_db = <<>>
  /\ dsd = EmptyDict
  /\ PDIdle
  /\ TPIdle
  /\ SRIdle
  /\ CFIdle
  /\ tp_first = NoFirst
  /\ GRIdle
  /\ MonIdle
  /\ WKIdle
  /\ PGIdle
  /\ RTIdle
  /\ SLIdle
  /\ CTIdle

NextExpand == EXExpand

SpecExpand == InitExpand /\ [][NextExpand]_vars

\* the variables of the records returned
Emitted == {records[k].variable : k \in 1..Len(records)}

\* C34: when the search named variables, one record is emitted for each
\* variable that is both searched and declared, and no other; when it named
\* none, one record for each declared variable.
C34_OneRecordPerWantedVariable ==
  ex_pc = "done" =>
    LET wanted == IF search_vars = <<>> THEN Range(content_vars)
                  ELSE Range(search_vars) \cap Range(content_vars)
    IN /\ Emitted = wanted
       /\ Len(records) = Cardinality(wanted)

\* ------------------------------------------------------------------------
\* session_log (catalog.py)
\* ------------------------------------------------------------------------
MaxLines == 3

\* the time a line of the log carries, in seconds; a line in which the
\* pattern of the time stamp is not found
Stamps == {2, 4, 6}
NoStamp == 0

\* "self.session_time - pd.Timedelta(1, 's')"
Pad == 1

\* the log files: the stamped lines are in the order of their times
Logs ==
  {l \in SeqsUpTo(Stamps \cup {NoStamp}, MaxLines) :
     \A a, b \in 1..Len(l) : (a < b /\ l[a] # NoStamp /\ l[b] # NoStamp) => l[a] <= l[b]}

\* the value of n when the loop over the reversed lines ends: the position
\* (from 0) of the first line older than the session, else of the last line
\* looked at; -1 stands for n never assigned
LastN(lines, since) ==
  LET rev == [j \in 1..Len(lines) |-> lines[Len(lines) - j + 1]]
      old == {j \in 1..Len(rev) : rev[j] # NoStamp /\ rev[j] < since - Pad}
  IN IF old # {} THEN (CHOOSE j \in old : \A i \in old : j <= i) - 1
     ELSE Len(rev) - 1

\* session_log: "".join(log[:n][::-1]), the lines given by their positions
session_log(lines, since) ==
  LET n == LastN(lines, since)
  IN IF n < 0 THEN Raise("UnboundLocalError")
     ELSE Return([k \in 1..n |-> Len(lines) - n + k])

SLCall ==
  /\ sl_pc = "call"
  /\ sl_result' = session_log(log, session_time)
  /\ sl_pc' = "done"
  /\ UNCHANGED <<log, session_time>>
  /\ UNCHANGED <<worldVars, dlVars, tpVars, srVars, cfVars, tp_first, grVars, monVars, wkVars, pgVars, rtVars, exVars, ctVars>>

InitLog ==
  /\ log \in Logs
  /\ session_time \in {5, 7}
  /\ sl_result = NoResult
  /\ sl_pc = "call"
  /\ local_cache = Caches(1)
  /\ esg_dataroot = DataRoots(1)
  /\ files = <<>>
  /\ download_db = <<>>
  /\ dsd = EmptyDict
  /\ PDIdle
  /\ TPIdle
  /\ SRIdle
  /\ CFIdle
  /\ tp_first = NoFirst
  /\ GRIdle
  /\ MonIdle
  /\ WKIdle
  /\ PGIdle
  /\ RTIdle
  /\ EXIdle
  /\ CTIdle

NextLog == SLCall

SpecLog == InitLog /\ [][NextLog]_vars

\* C35: session_log returns the lines stamped at or after session_time minus
\* the pad, and none stamped before it, in the order they were written; it
\* returns the empty string when there is no such line, also for an empty
\* log.
C35_LogSinceSession ==
  sl_pc = "done" =>
    /\ sl_result.kind = "return"
    /\ \A k \in 1..Len(log) :
         log[k] # NoStamp =>
           (log[k] >= session_time - Pad <=> k \in Range(sl_result.value))
    /\ \A a, b \in 1..Len(sl_result.value) : a < b => sl_result.value[a] < sl_result.value[b]

\* ------------------------------------------------------------------------
\* The datasets returned in part
\* ------------------------------------------------------------------------
\* the files of the dataset with the given key
FilesOf(key) == {k \in 1..Len(infos) : infos[k].key = key}

\* C36: every key of the dictionary that to_path_dict returns has one path
\* for each file of its dataset; a dataset of which a file could not be
\* obtained is reported missing and not returned in part. (Without
\* streaming, where a key holds links.)
C36_NoDatasetInPart ==
  (tp_pc = "done" /\ tp_result.kind = "return" /\ ~prefer_streaming) =>
    \A key \in DOMAIN dsd : Len(dsd[key]) = Cardinality(FilesOf(key))

\* ------------------------------------------------------------------------
\* The catalog through search, from_tracking_ids and to_path_dict
\* (catalog.py, base.py, core/solr.py)
\* ------------------------------------------------------------------------
\* A row carries its project, the two master-id facets in which the rows of
\* the model differ (the model and the variable, under the names the project
\* gives them) and the identifiers of its datasets.
MaxDocs == 2

\* projects.py: the projects known, and the variable facet of each
Supported == {"CMIP6", "CMIP5"}
variable_facet_of(p) == IF p = "CMIP6" THEN "variable_id" ELSE "variable"

\* the dataset documents of the indices: a CMIP5 dataset holds several
\* variables under one identifier
DatasetDocs ==
  { [project |-> "CMIP6", model |-> "m1", variable |-> <<"tas">>, id |-> "d1"],
    [project |-> "CMIP6", model |-> "m2", variable |-> <<"tas">>, id |-> "d2"],
    [project |-> "CMIP5", model |-> "m1", variable |-> <<"clw", "tas">>, id |-> "d3"],
    [project |-> "obs4MIPs", model |-> "m1", variable |-> <<"tas">>, id |-> "d4"] }

\* the file documents of the indices
FileDocs ==
  { [project |-> "CMIP6", model |-> "m1", variable |-> <<"tas">>, id |-> "f1",
     dataset_id |-> "d1"],
    [project |-> "CMIP6", model |-> "m2", variable |-> <<"tas">>, id |-> "f2",
     dataset_id |-> "d2"],
    [project |-> "CMIP5", model |-> "m1", variable |-> <<"clw">>, id |-> "f3",
     dataset_id |-> "d3"],
    [project |-> "CMIP5", model |-> "m1", variable |-> <<"tas">>, id |-> "f4",
     dataset_id |-> "d3"],
    [project |-> "obs4MIPs", model |-> "m1", variable |-> <<"tas">>, id |-> "f5",
     dataset_id |-> "d4"] }

\* the keywords of a search: the project, one or several, and the variable
\* facet with its values when the search names variables
Queries ==
  { [project |-> p, facet |-> None, values |-> <<>>] :
      p \in {<<"CMIP6">>, <<"CMIP5">>, <<"CMIP6", "CMIP5">>} }
    \cup
  { [project |-> <<"CMIP6">>, facet |-> variable_facet_of("CMIP6"), values |-> <<"tas">>] }
    \cup
  { [project |-> <<"CMIP5">>, facet |-> variable_facet_of("CMIP5"), values |-> v] :
      v \in {<<"tas">>, <<"clw", "tas">>} }

\* the documents the indices answer a search with: a search of several
\* projects raises before an index is asked
AnsweredDocs(q_search) ==
  IF Len(q_search.project) > 1 THEN {<<>>} ELSE SeqsUpTo(DatasetDocs, MaxDocs)

\* the documents that from_tracking_ids is answered with: the tracking ids
\* of the model name files of the model m1
TrackedDocs == SeqsUpTo({d \in FileDocs : d.model = "m1"}, MaxDocs)

\* ignore_facets: None, or one facet
IgnoreChoices == {{}} \cup {{master_id_facets[k]} : k \in 1..Len(master_id_facets)}

\* the record of a document: the first value of a facet that is a list
RecordOf(doc) ==
  [project |-> doc.project, model |-> doc.model, variable |-> doc.variable[1],
   id |-> doc.id]

\* SolrESGFIndex.search: the records of the documents, a CMIP5 record
\* expanded with search["variable"]; the lists the call can return
RECURSIVE SearchRows(_, _)
SearchRows(docs, variables) ==
  IF docs = <<>> THEN {<<>>}
  ELSE LET record == RecordOf(docs[1])
           first == IF record.project = "CMIP5"
                    THEN expand_cmip5_record(variables, docs[1].variable, record)
                    ELSE {<<record>>}
       IN {a \o b : a \in first, b \in SearchRows(Tail(docs), variables)}

\* SolrESGFIndex.from_tracking_ids: the records of the file documents, the id
\* of a record the id of the document
TrackedRows(docs) == [k \in 1..Len(docs) |-> RecordOf(docs[k])]

\* combine_results over these rows: what it raises, or the frame it returns
CombinedRows(rows) ==
  LET projs == {rows[k].project : k \in 1..Len(rows)}
      df0 == Pick(rows,
                  {k \in 1..Len(rows) :
                     \A q \in 1..(k - 1) :
                       <<rows[q].variable, rows[q].id>> # <<rows[k].variable, rows[k].id>>},
                  1)
      master(r) == <<r.model, r.variable>>
      first == {k \in 1..Len(df0) : \A q \in 1..(k - 1) : master(df0[q]) # master(df0[k])}
      group(k) == {q \in 1..Len(df0) : master(df0[q]) = master(df0[k])}
      merged == [k \in 1..Len(df0) |->
                   [df0[k] EXCEPT !.id = [j \in 1..Cardinality(group(k)) |->
                                            Pick(df0, group(k), 1)[j].id]]]
  IN IF Len(rows) = 0 THEN [exc |-> "NoSearchResults", df |-> <<>>]
     ELSE IF Cardinality(projs) # 1 THEN [exc |-> "ValueError", df |-> <<>>]
     ELSE IF projs \cap Supported = {} THEN [exc |-> "ProjectNotSupported", df |-> <<>>]
     ELSE [exc |-> None, df |-> Pick(merged, first, 1)]

\* self.df = combine_results(...); self._set_project(); and, in search,
\* self.last_search = search: nothing is assigned when combine_results raises
Populate_remembering(cat, combined, remembered) ==
  IF combined.exc # None
  THEN [catalog |-> [cat EXCEPT !.last_search = remembered], kind |-> "raise",
        exc |-> combined.exc]
  ELSE [catalog |-> [df |-> combined.df, project |-> combined.df[1].project,
                     last_search |-> remembered],
        kind |-> "return", exc |-> None]
Populate(cat, combined, remembered) ==
  IF combined.exc # None
  THEN [catalog |-> cat, kind |-> "raise", exc |-> combined.exc]
  ELSE [catalog |-> [df |-> combined.df, project |-> combined.df[1].project,
                     last_search |-> remembered],
        kind |-> "return", exc |-> None]

\* search(**search): the ids of the model carry one version, so the loop
\* that keeps the latest version keeps every id
CTSearch ==
  /\ \E q_search \in Queries :
     \E docs \in AnsweredDocs(q_search) :
       \E rows \in SearchRows(docs, IF q_search.facet = "variable" THEN q_search.values
                                    ELSE <<>>) :
         LET out == IF Len(q_search.project) > 1
                    THEN [catalog |-> catalog, kind |-> "raise", exc |-> "ValueError"]
                    ELSE Populate(catalog, CombinedRows(rows),
                                  [project |-> q_search.project[1], facet |-> q_search.facet,
                                   values |-> q_search.values])
         IN /\ catalog' = out.catalog
            /\ ct_last' = [op |-> "search", kind |-> out.kind, exc |-> out.exc]
  /\ ct_infos' = NoQuery
  /\ ct_keys' = NoKeys
  /\ UNCHANGED <<worldVars, dlVars, tpVars, srVars, cfVars, tp_first, grVars, monVars, wkVars, pgVars, rtVars, exVars, slVars>>

\* from_tracking_ids(tracking_ids)
CTFromTrackingIds ==
  /\ \E docs \in TrackedDocs :
       LET out == Populate(catalog, CombinedRows(TrackedRows(docs)), catalog.last_search)
       IN /\ catalog' = out.catalog
          /\ ct_last' = [op |-> "from_tracking_ids", kind |-> out.kind, exc |-> out.exc]
  /\ ct_infos' = NoQuery
  /\ ct_keys' = NoKeys
  /\ UNCHANGED <<worldVars, dlVars, tpVars, srVars, cfVars, tp_first, grVars, monVars, wkVars, pgVars, rtVars, exVars, slVars>>

\* the row under the facet names of the key operators
AsRow(r) == Row(r.model, r.variable)

\* {dataset_id: row["key"] for _, row in self.df.iterrows() for dataset_id in
\* row["id"]}: the key of the last row that holds the id
DatasetIds(rows, sep) ==
  LET last(i) == CHOOSE r \in 1..Len(rows) :
                   /\ i \in Range(rows[r].id)
                   /\ \A q \in 1..Len(rows) : i \in Range(rows[q].id) => q <= r
  IN [i \in UNION {Range(rows[r].id) : r \in 1..Len(rows)} |->
        KeyOf(AsRow(rows[last(i)]), master_id_facets, sep)]

\* the variable facet of the last search, when the project of the catalog
\* names its variable facet so
SearchFacets(cat) ==
  IF cat.last_search.facet = variable_facet_of(cat.project)
  THEN [facet |-> cat.last_search.facet, values |-> cat.last_search.values]
  ELSE NoFacets

\* get_file_info(dataset_ids, **facets): the files of the datasets asked for,
\* of the variables asked for when the facet is given
FileInfoOf(ids, facets) ==
  {d \in FileDocs :
     /\ d.dataset_id \in ids
     /\ facets.facet # None => d.variable[1] \in Range(facets.values)}

\* _get_file_info(separator), called by to_path_dict on a catalog with rows
CTGetFileInfo ==
  /\ Len(catalog.df) > 0
  /\ ~ct_infos.asked
  /\ \E sep \in {<<".">>, <<"-">>} :
       LET dataset_ids == DatasetIds(catalog.df, sep)
           facets == SearchFacets(catalog)
       IN ct_infos' =
            [separator |-> sep, search_facets |-> facets,
             infos |-> {[path |-> d.id, dataset_id |-> d.dataset_id,
                         variable |-> d.variable[1], key |-> dataset_ids[d.dataset_id]] :
                          d \in FileInfoOf(DOMAIN dataset_ids, facets)},
             asked |-> TRUE]
  /\ UNCHANGED <<catalog, ct_last, ct_keys>>
  /\ UNCHANGED <<worldVars, dlVars, tpVars, srVars, cfVars, tp_first, grVars, monVars, wkVars, pgVars, rtVars, exVars, slVars>>

\* the end of to_path_dict when every key of the catalog got its paths: the
\* key under which the paths of each row are returned
ReturnedKeys(rows, minimal, ignore_facets, sep) ==
  LET as_rows == [r \in 1..Len(rows) |-> AsRow(rows[r])]
      key_format == IF minimal THEN minimal_key_format(as_rows, ignore_facets)
                    ELSE master_id_facets
  IN [r \in 1..Len(rows) |-> KeyOf(as_rows[r], key_format, sep)]

CTKeys ==
  /\ ct_infos.asked
  /\ ~ct_keys.made
  /\ \E minimal \in BOOLEAN, ignore_facets \in IgnoreChoices :
       ct_keys' = [minimal_keys |-> minimal, ignore_facets |-> ignore_facets,
                   separator |-> ct_infos.separator,
                   returned |-> ReturnedKeys(catalog.df, minimal, ignore_facets,
                                             ct_infos.separator),
                   made |-> TRUE]
  /\ UNCHANGED <<catalog, ct_last, ct_infos>>
  /\ UNCHANGED <<worldVars, dlVars, tpVars, srVars, cfVars, tp_first, grVars, monVars, wkVars, pgVars, rtVars, exVars, slVars>>

InitCatalog ==
  /\ CTIdle
  /\ local_cache = Caches(1)
  /\ esg_dataroot = DataRoots(1)
  /\ files = <<>>
  /\ download_db = <<>>
  /\ dsd = EmptyDict
  /\ PDIdle
  /\ TPIdle
  /\ SRIdle
  /\ CFIdle
  /\ tp_first = NoFirst
  /\ GRIdle
  /\ MonIdle
  /\ WKIdle
  /\ PGIdle
  /\ RTIdle
  /\ EXIdle
  /\ SLIdle

NextCatalog == CTSearch \/ CTFromTrackingIds \/ CTGetFileInfo \/ CTKeys

SpecCatalog == InitCatalog /\ [][NextCatalog]_vars

\* C37: after a search followed by from_tracking_ids on the same catalog, the
\* q_search for file information carries no variable facet: the facet of the
\* earlier search does not filter the files of the rows that the tracking
\* ids gave.
C37_FacetsOfThePopulatingCall ==
  (ct_infos.asked /\ ct_last.op = "from_tracking_ids" /\ ct_last.kind = "return") =>
    ct_infos.search_facets = NoFacets

\* the file information that carries the key of a given row
KeyedInfos(r) ==
  {i \in ct_infos.infos :
     i.key = KeyOf(AsRow(catalog.df[r]), master_id_facets, ct_infos.separator)}

\* C38: when a dataset identifier belongs to several rows, each FileInfo
\* returned for it carries the key of the row of its variable.
C38_FileKeyedByItsVariable ==
  ct_infos.asked =>
    \A i \in ct_infos.infos :
      \E r \in 1..Len(catalog.df) :
        /\ i.dataset_id \in Range(catalog.df[r].id)
        /\ catalog.df[r].variable = i.variable
        /\ i \in KeyedInfos(r)

\* C39: two distinct rows of the catalog never get the same returned key,
\* whatever minimal_keys, ignore_facets and separator are.
C39_OneKeyPerRow ==
  ct_keys.made =>
    \A a, b \in 1..Len(catalog.df) : a # b => ct_keys.returned[a] # ct_keys.returned[b]

\* C40: a call of search or from_tracking_ids that raises leaves the rows,
\* the project and the remembered search of the catalog as they were.
C40_RaiseLeavesCatalog ==
  [][ct_last'.kind = "raise" => catalog' = catalog]_vars

\* a call raised on a catalog that an earlier search had populated
C40_Witness ==
  /\ ct_last.kind = "raise"
  /\ ct_last.exc = "NoSearchResults"
  /\ Len(catalog.df) = 2
  /\ catalog.project = "CMIP5"
  /\ catalog.last_search.facet = "variable"

====
